---- MODULE Spec2Model ----
(***************************************************************************)
(* Moderation pipeline of the Smart Content Moderator API:                 *)
(* fingerprinting (app/utils/hashing.py), the verdict parser               *)
(* (app/services/llm_service.py), the two submission handlers and the      *)
(* background dispatcher (app/routes/moderation.py), and the notification  *)
(* fan-out (app/services/notification_service.py).                         *)
(*                                                                         *)
(* Strings whose characters matter (submitted text, URLs, the upstream     *)
(* classification word) are sequences of one-character strings.  Numbers   *)
(* that are floats in the program (confidence) are integers in hundredths. *)
(***************************************************************************)
EXTENDS Integers, Sequences, FiniteSets, TLC

(***************************************************************************)
(* Bounds of the model.                                                    *)
(***************************************************************************)
\* Handlers that may run at once, submissions of a run with overlapping
\* handlers, submissions of a run in which they follow one another.
NumHandlers == 2
MaxSubmissions == 2
MaxSequential == 3
MaxHashedLength == 3
MaxVariantLength == 4
MaxContentLength == 202
MaxHits == 4

(***************************************************************************)
(* Character level helpers (str.strip, str.lower, str.split, str.join).    *)
(***************************************************************************)
IsSpace(c) == c \in {" ", "\t", "\n"}

LowerChar(c) ==
  CASE c = "A" -> "a"
    [] c = "B" -> "b"
    [] c = "C" -> "c"
    [] c = "F" -> "f"
    [] c = "I" -> "i"
    [] c = "M" -> "m"
    [] c = "O" -> "o"
    [] c = "P" -> "p"
    [] c = "S" -> "s"
    [] c = "T" -> "t"
    [] c = "X" -> "x"
    [] OTHER -> c

\* The three sigmas: capital U+03A3, small U+03C3, small final U+03C2.
CapitalSigma == "U+03A3"
SmallSigma == "U+03C3"
FinalSigma == "U+03C2"

\* Unicode properties Cased and Case_Ignorable on the characters of the model.
IsCased(c) ==
  c \in {"a", "b", "c", "e", "f", "g", "h", "i", "m", "n", "o", "p", "r", "s",
         "t", "x", "A", "B", "C", "F", "I", "M", "O", "P", "S", "T", "X",
         CapitalSigma, SmallSigma, FinalSigma}

IsCaseIgnorable(c) == c \in {"'", "."}

\* The nearest index before i, and after i, whose character is not
\* case-ignorable; 0 and Len(s) + 1 when there is none.
RECURSIVE PrevSignificant(_, _)
PrevSignificant(s, i) ==
  IF i - 1 < 1 THEN 0
  ELSE IF IsCaseIgnorable(s[i - 1]) THEN PrevSignificant(s, i - 1)
  ELSE i - 1

RECURSIVE NextSignificant(_, _)
NextSignificant(s, i) ==
  IF i + 1 > Len(s) THEN Len(s) + 1
  ELSE IF IsCaseIgnorable(s[i + 1]) THEN NextSignificant(s, i + 1)
  ELSE i + 1

\* str.lower() maps a capital sigma to the final form when a cased character
\* precedes it and none follows it (case-ignorable characters skipped).
InFinalSigmaContext(s, i) ==
  /\ PrevSignificant(s, i) >= 1
  /\ IsCased(s[PrevSignificant(s, i)])
  /\ \/ NextSignificant(s, i) > Len(s)
     \/ ~IsCased(s[NextSignificant(s, i)])

StrLower(s) ==
  [i \in 1..Len(s) |->
     IF s[i] = CapitalSigma
       THEN (IF InFinalSigmaContext(s, i) THEN FinalSigma ELSE SmallSigma)
       ELSE LowerChar(s[i])]

RECURSIVE LStrip(_)
LStrip(s) == IF s # <<>> /\ IsSpace(Head(s)) THEN LStrip(Tail(s)) ELSE s

RECURSIVE RStrip(_)
RStrip(s) ==
  IF s # <<>> /\ IsSpace(s[Len(s)]) THEN RStrip(SubSeq(s, 1, Len(s) - 1)) ELSE s

StrStrip(s) == RStrip(LStrip(s))

\* str.split() with no argument: the maximal runs of non-whitespace.
RECURSIVE SplitFrom(_, _, _)
SplitFrom(s, i, cur) ==
  IF i > Len(s)
    THEN (IF cur = <<>> THEN <<>> ELSE <<cur>>)
    ELSE IF IsSpace(s[i])
      THEN (IF cur = <<>> THEN <<>> ELSE <<cur>>) \o SplitFrom(s, i + 1, <<>>)
      ELSE SplitFrom(s, i + 1, Append(cur, s[i]))

StrSplit(s) == SplitFrom(s, 1, <<>>)

\* " ".join(words)
RECURSIVE JoinSpace(_)
JoinSpace(words) ==
  IF words = <<>> THEN <<>>
  ELSE IF Len(words) = 1 THEN words[1]
  ELSE words[1] \o <<" ">> \o JoinSpace(Tail(words))

\* hashlib.sha256(b).hexdigest(): collision free on the inputs of the model, so
\* a digest is the tagged byte string it was computed from.
Sha256(bytes) == <<"sha256">> \o bytes

\* hash_text: normalized_text = " ".join(text.strip().lower().split())
NormalizeText(text) == JoinSpace(StrSplit(StrLower(StrStrip(text))))

hash_text(text) == Sha256(NormalizeText(text))

\* hash_url: normalized_url = url.strip().lower()
hash_url(url) == Sha256(StrLower(StrStrip(url)))

(***************************************************************************)
(* Inline image payloads.  A payload is [prefix, body]: prefix is TRUE     *)
(* when the string starts with "data:image", body names the base64 text    *)
(* after the comma.  B64Decode gives the decoded bytes, or Undecodable     *)
(* when base64.b64decode raises.                                           *)
(***************************************************************************)
Undecodable == <<"undecodable">>

\* Stands for the bytes of an image of more than max_image_size bytes.
BigImage == <<"b", "i", "g">>

B64Decode(body) ==
  CASE body = "aW1nMQ==" -> <<"i", "m", "g", "1">>
    [] body = "YQ==" -> <<"a">>
    [] body = "YmlnLi4u" -> BigImage
    [] OTHER -> Undecodable

\* hash_image for a str argument: strip the data-URI prefix, decode, hash.
hash_image(image_data) == Sha256(B64Decode(image_data.body))

(***************************************************************************)
(* JSON values of the upstream object.  t is the JSON type ("missing" when *)
(* the key is absent), s the characters of a string, n the value of a      *)
(* number in hundredths (1 or 0 for true or false).                        *)
(***************************************************************************)
JMissing == [t |-> "missing", s |-> <<>>, n |-> 0]
JNull == [t |-> "null", s |-> <<>>, n |-> 0]
JNaN == [t |-> "nan", s |-> <<>>, n |-> 0]
JStr(chars) == [t |-> "str", s |-> chars, n |-> 0]
JNum(hundredths) == [t |-> "num", s |-> <<>>, n |-> hundredths]
JBool(b) == [t |-> "bool", s |-> <<>>, n |-> IF b THEN 1 ELSE 0]

\* The members of one JSON object, as json.loads returns them.
Members(c, f, r, g) ==
  [classification |-> c, confidence |-> f, reasoning |-> r, flagged |-> g]

NoMembers == Members(JMissing, JMissing, JMissing, JMissing)

(***************************************************************************)
(* The raw upstream text is a sequence of tokens: prose, "{", "}", or the  *)
(* member list of an object ("members", with its content in m).            *)
(***************************************************************************)
Prose == [k |-> "prose", m |-> NoMembers]
LBrace == [k |-> "{", m |-> NoMembers]
RBrace == [k |-> "}", m |-> NoMembers]
Body(m) == [k |-> "members", m |-> m]

\* ClassificationType (models.py) and its string values.
ClassificationType == {"safe", "toxic", "spam", "harassment", "inappropriate"}

Chars_safe == <<"s", "a", "f", "e">>
Chars_toxic == <<"t", "o", "x", "i", "c">>
Chars_spam == <<"s", "p", "a", "m">>
Chars_harassment == <<"h", "a", "r", "a", "s", "s", "m", "e", "n", "t">>
Chars_inappropriate ==
  <<"i", "n", "a", "p", "p", "r", "o", "p", "r", "i", "a", "t", "e">>

\* classification_map.get(classification, ClassificationType.SAFE)
classification_map_get(chars) ==
  CASE chars = Chars_safe -> "safe"
    [] chars = Chars_toxic -> "toxic"
    [] chars = Chars_spam -> "spam"
    [] chars = Chars_harassment -> "harassment"
    [] chars = Chars_inappropriate -> "inappropriate"
    [] OTHER -> "safe"

\* re.search(r"\{.*\}", response_text, re.DOTALL): leftmost "{" to the last "}"
\* after it; <<>> stands for no match.
BraceStarts(text) == {i \in 1..Len(text) : text[i].k = "{"}
BraceEnds(text, from) == {j \in (from + 1)..Len(text) : text[j].k = "}"}
SetMin(S) == CHOOSE x \in S : \A y \in S : x <= y
SetMax(S) == CHOOSE x \in S : \A y \in S : x >= y

\* The greedy match starts at the leftmost "{" that has a "}" after it.
MatchStarts(text) == {i \in BraceStarts(text) : BraceEnds(text, i) # {}}

json_match(text) ==
  IF MatchStarts(text) = {} THEN <<>>
  ELSE LET i == SetMin(MatchStarts(text))
           j == SetMax(BraceEnds(text, i))
       IN  SubSeq(text, i, j)

\* json.loads(json_str) succeeds exactly on "{}" and on "{" members "}".
JsonDecodable(json_str) ==
  \/ Len(json_str) = 2
  \/ Len(json_str) = 3 /\ json_str[2].k = "members"

json_loads(json_str) == IF Len(json_str) = 3 THEN json_str[2].m ELSE NoMembers

\* float(x) of a JSON value; [ok |-> FALSE] when float raises (ValueError for a
\* non-numeric string, TypeError for null).
IsDigit(c) == c \in {"0", "1", "2", "3", "4", "5", "6", "7", "8", "9"}
DigitVal(c) ==
  CASE c = "0" -> 0 [] c = "1" -> 1 [] c = "2" -> 2 [] c = "3" -> 3 [] c = "4" -> 4
    [] c = "5" -> 5 [] c = "6" -> 6 [] c = "7" -> 7 [] c = "8" -> 8 [] c = "9" -> 9

\* Strings of the shape d.dd (one integer digit, two decimals) are the numeric
\* strings of the model; every other string makes float raise.
IsNumericStr(s) ==
  /\ Len(s) = 4
  /\ IsDigit(s[1]) /\ s[2] = "." /\ IsDigit(s[3]) /\ IsDigit(s[4])

FloatOfStr(s) == 100 * DigitVal(s[1]) + 10 * DigitVal(s[3]) + DigitVal(s[4])

PyFloat(x) ==
  CASE x.t = "num" -> [ok |-> TRUE, nan |-> FALSE, n |-> x.n]
    [] x.t = "bool" -> [ok |-> TRUE, nan |-> FALSE, n |-> 100 * x.n]
    [] x.t = "nan" -> [ok |-> TRUE, nan |-> TRUE, n |-> 0]
    [] x.t = "str" /\ IsNumericStr(x.s) ->
         [ok |-> TRUE, nan |-> FALSE, n |-> FloatOfStr(x.s)]
    [] OTHER -> [ok |-> FALSE, nan |-> FALSE, n |-> 0]

\* Python's a < b on floats: False whenever either side is NaN.
PyLess(a, b) == ~a.nan /\ ~b.nan /\ a.n < b.n

\* min(1.0, c) keeps 1.0 unless c < 1.0; max(0.0, m) keeps 0.0 unless m > 0.0.
PyFloatConst(h) == [ok |-> TRUE, nan |-> FALSE, n |-> h]
PyMin(a, b) == IF PyLess(b, a) THEN b ELSE a
PyMax(a, b) == IF PyLess(a, b) THEN b ELSE a

\* Mutant: the confidence is returned as parsed, without the clamp.
Clamp_Unclamped(confidence) == confidence.n

\* max(0.0, min(1.0, confidence))
Clamp(confidence) ==
  PyMax(PyFloatConst(0), PyMin(PyFloatConst(100), confidence)).n

\* parsed.get(key, default)
DictGet(value, default) == IF value.t = "missing" THEN default ELSE value

\* The two fallback verdicts of parse_llm_response.
NoJsonVerdict(response_text) ==
  [classification |-> "safe", confidence |-> 50,
   reasoning |-> JStr(<<"Failed to parse LLM response">>),
   flagged |-> JBool(FALSE), llm_response |-> response_text]

\* Mutant: the except fallback reports the content as flagged.
ExceptVerdict_Flagged(response_text) ==
  [classification |-> "safe", confidence |-> 50,
   reasoning |-> JStr(<<"Error parsing response: ">>),
   flagged |-> JBool(TRUE), llm_response |-> response_text]

ExceptVerdict(response_text) ==
  [classification |-> "safe", confidence |-> 50,
   reasoning |-> JStr(<<"Error parsing response: ">>),
   flagged |-> JBool(FALSE), llm_response |-> response_text]

\* The statements of the try block after json.loads: each may raise.
ClassificationRaises(parsed) ==
  DictGet(parsed.classification, JStr(Chars_safe)).t # "str"

ConfidenceRaises(parsed) == ~PyFloat(DictGet(parsed.confidence, JNum(50))).ok

NormalVerdict(parsed, response_text) ==
  [classification |->
     classification_map_get(
       StrLower(DictGet(parsed.classification, JStr(Chars_safe)).s)),
   confidence |-> Clamp(PyFloat(DictGet(parsed.confidence, JNum(50)))),
   reasoning |-> DictGet(parsed.reasoning, JStr(<<"No reasoning provided">>)),
   flagged |-> DictGet(parsed.flagged, JBool(FALSE)),
   llm_response |-> response_text]

\* The try block of _parse_llm_response (lines 144-190): exc is TRUE when one
\* of its statements raises, and value is then unused.
TryBlock(response_text) ==
  IF json_match(response_text) = <<>>
    THEN [exc |-> FALSE, value |-> NoJsonVerdict(response_text)]
  ELSE IF ~JsonDecodable(json_match(response_text))
    THEN [exc |-> TRUE, value |-> ExceptVerdict(response_text)]
  ELSE LET parsed == json_loads(json_match(response_text))
       IN  IF ClassificationRaises(parsed) \/ ConfidenceRaises(parsed)
             THEN [exc |-> TRUE, value |-> ExceptVerdict(response_text)]
             ELSE [exc |-> FALSE, value |-> NormalVerdict(parsed, response_text)]

\* LLMService._parse_llm_response: `except Exception` turns every exception of
\* the try block into the fallback verdict.
parse_llm_response(response_text) ==
  IF TryBlock(response_text).exc
    THEN [exc |-> FALSE, value |-> ExceptVerdict(response_text)]
    ELSE TryBlock(response_text)

\* Truth value of a JSON value in `if llm_result['flagged']:`.
Truthy(x) ==
  CASE x.t = "bool" -> x.n = 1
    [] x.t = "num" -> x.n # 0
    [] x.t = "str" -> x.s # <<>>
    [] x.t = "nan" -> TRUE
    [] OTHER -> FALSE

(***************************************************************************)
(* Inputs of the model.                                                    *)
(***************************************************************************)
\* TextModerationRequest.text: Field(..., min_length=1, max_length=10000)
MinTextLength == 1
MaxTextLength == 10000

TextRequest(email, text) == [email |-> email, text |-> text]

\* A text one character longer than the schema allows.
TooLongText == [i \in 1..(MaxTextLength + 1) |-> "a"]

\* Two submitters send the same text up to case and spacing; one sends "" and
\* one sends a text that is too long.
TextRequests ==
  {TextRequest("u1@x.org", <<"a">>),
   TextRequest("u2@x.org", <<" ", "A">>),
   TextRequest("u1@x.org", <<>>),
   TextRequest("u1@x.org", TooLongText)}

\* What is remembered of a submission: its kind, the length of its text, and
\* what was wrong with its image ("none" for a text or a usable image).
Submission(kind, size, defect) == [kind |-> kind, size |-> size, defect |-> defect]

NoBase64 == [prefix |-> FALSE, body |-> ""]
ImageRequest(email, url, b64) ==
  [email |-> email, image_url |-> url, image_base64 |-> b64]

\* A URL whose normal form equals the normal form of the text above; inline
\* payloads that do not decode, that decode to bytes that are no image, and
\* that decode to an image over the size limit; a request with neither field.
ImageRequests ==
  {ImageRequest("u2@x.org", <<"A", " ">>, NoBase64),
   ImageRequest("u1@x.org", <<>>, [prefix |-> FALSE, body |-> "!!"]),
   ImageRequest("u1@x.org", <<>>, [prefix |-> TRUE, body |-> "YQ=="]),
   ImageRequest("u1@x.org", <<>>, [prefix |-> FALSE, body |-> "YmlnLi4u"]),
   ImageRequest("u1@x.org", <<>>, NoBase64)}

\* What requests.get and the checks on its answer come to for a URL: the
\* image, a RequestException, a content type that is no supported format, or
\* a body over the size limit.
FetchOutcomes == {"ok", "unreachable", "unsupported", "too_large"}

\* Upstream responses the classification call returns in the state machine.
FlaggedToxic ==
  <<Prose, LBrace,
    Body(Members(JStr(<<"T", "o", "x", "i", "c">>), JNum(92), JStr(<<"abuse">>),
                 JBool(TRUE))),
    RBrace>>
UnflaggedToxic ==
  <<LBrace, Body(Members(JStr(Chars_toxic), JNum(80), JStr(<<"abuse">>), JBool(FALSE))),
    RBrace>>
FlaggedSafe ==
  <<LBrace, Body(Members(JStr(Chars_safe), JNum(99), JMissing, JBool(TRUE))), RBrace>>
NumberReasoning ==
  <<LBrace, Body(Members(JStr(Chars_spam), JNum(70), JNum(500), JBool(TRUE))), RBrace>>
PlainProse == <<Prose>>
BrokenObject == <<Prose, LBrace, Prose, RBrace>>

UpstreamResponses ==
  {FlaggedToxic, UnflaggedToxic, FlaggedSafe, NumberReasoning, PlainProse,
   BrokenObject}

\* Outcome of generate_content_async when it raises (network error, timeout,
\* non-success answer) instead of returning text.
UpstreamFailure == <<[k |-> "raise", m |-> NoMembers]>>
UpstreamQuota == <<[k |-> "raise_quota", m |-> NoMembers]>>

UpstreamFailures == {UpstreamFailure, UpstreamQuota}

\* str(e) of the exception the classification call raised.
ErrorText(raw) ==
  CASE raw = UpstreamFailure -> "503 The service is currently unavailable."
    [] raw = UpstreamQuota -> "429 Quota exceeded for project 1234"
    [] OTHER -> "validation error for the response model"

(***************************************************************************)
(* State.                                                                  *)
(***************************************************************************)
VARIABLES
  requests,           \* table moderation_requests, in insertion order
  results,            \* table moderation_results
  notification_logs,  \* table notification_logs
  now,                \* the store's clock (server_default=func.now())
  settings,           \* which channels are configured (core/config.py)
  hs,                 \* the request handlers: position and local variables
  started,            \* number of submissions received so far
  log,                \* what each finished submission returned to its caller
  dispatched,         \* history: the background tasks that ended, per request
  submitted,          \* history: the submissions received, in arrival order
  response_text,      \* input of the verdict parser run on its own
  llm_result,         \* its result
  text_t,             \* a text to fingerprint
  text_u,             \* a text that differs from it in case and spacing only
  digests,            \* their fingerprints
  content,            \* a content whose alert messages are built
  messages            \* the content preview in the message of each channel

vars ==
  <<requests, results, notification_logs, now, settings, hs, started, log,
    dispatched, submitted, response_text, llm_result, text_t, text_u, digests,
    content, messages>>

store == <<requests, results, notification_logs, now>>
hash_vars == <<text_t, text_u, digests>>
preview_vars == <<content, messages>>
parser_vars == <<response_text, llm_result, hash_vars, preview_vars>>

Handlers == 1..NumHandlers
None == 0

IdleHandler ==
  [pc |-> "idle", n |-> 0, email |-> "", kind |-> "", content_hash |-> <<>>,
   preview |-> <<>>, request_id |-> None, classification |-> "",
   confidence |-> 0, reasoning |-> JNull, flagged |-> FALSE,
   slack |-> "", mail |-> "", fetch |-> "", existing_request |-> None]

NoContent == [kind |-> "text", chars |-> <<>>]

NotBuilt == [called |-> FALSE, slack |-> <<>>, mail |-> <<>>]

NotHashed == [called |-> FALSE, t |-> <<>>, u |-> <<>>, n |-> <<>>]

NotParsed == [called |-> FALSE, exc |-> FALSE, value |-> NoJsonVerdict(<<>>)]

\* Settings: the chat webhook and the email API key may each be unset.
ChannelSettings ==
  {[slack_webhook_url |-> TRUE, brevo |-> TRUE],
   [slack_webhook_url |-> FALSE, brevo |-> TRUE]}

Init ==
  /\ requests = <<>>
  /\ results = <<>>
  /\ notification_logs = <<>>
  /\ now = 1
  /\ settings \in ChannelSettings
  /\ hs = [h \in Handlers |-> IdleHandler]
  /\ started = 0
  /\ log = <<>>
  /\ dispatched = {}
  /\ submitted = <<>>
  /\ response_text = <<>>
  /\ llm_result = NotParsed
  /\ text_t = <<>>
  /\ text_u = <<>>
  /\ digests = NotHashed
  /\ content = NoContent
  /\ messages = NotBuilt

(***************************************************************************)
(* Store queries and updates (SQLAlchemy session calls of moderation.py).  *)
(***************************************************************************)
\* Mutant: the lookup filters by fingerprint alone.
FilterRequests_AnyKind(reqs, content_hash, kind) ==
  {i \in 1..Len(reqs) : reqs[i].content_hash = content_hash}

\* db.query(ModerationRequest).filter(content_hash == h, content_type == k)
FilterRequests(reqs, content_hash, kind) ==
  {i \in 1..Len(reqs) :
     reqs[i].content_hash = content_hash /\ reqs[i].content_type = kind}

\* .first() of a query without ORDER BY: any matching row, None when there is
\* none.
QueryFirst(matches) == IF matches = {} THEN {None} ELSE matches

\* db.query(ModerationResult).filter(request_id == id)
\*   .order_by(created_at.desc()).first()
ResultsOf(ress, request_id) ==
  {i \in 1..Len(ress) : ress[i].request_id = request_id}

LatestResult(ress, request_id) ==
  IF ResultsOf(ress, request_id) = {} THEN {None}
  ELSE {i \in ResultsOf(ress, request_id) :
          \A j \in ResultsOf(ress, request_id) :
            ress[j].created_at <= ress[i].created_at}

\* Mutant: the row is created with the default of the status column
\* (models.py: default=ModerationStatus.PENDING).
NewRequest_DefaultStatus(reqs, email, kind, content_hash, at) ==
  [id |-> Len(reqs) + 1, email |-> email, content_type |-> kind,
   content_hash |-> content_hash, status |-> "pending", created_at |-> at]

\* ModerationRequest(email, content_type, content_hash, status=PROCESSING)
NewRequest(reqs, email, kind, content_hash, at) ==
  [id |-> Len(reqs) + 1, email |-> email, content_type |-> kind,
   content_hash |-> content_hash, status |-> "processing", created_at |-> at]

\* Mutant: the status is written to every request with the fingerprint and
\* kind of the handler's request.
SetStatus_ByKey(reqs, id, status) ==
  [i \in DOMAIN reqs |->
     IF reqs[i].content_hash = reqs[id].content_hash
        /\ reqs[i].content_type = reqs[id].content_type
       THEN [reqs[i] EXCEPT !.status = status]
       ELSE reqs[i]]

\* moderation_request.status = ...; db.commit()
SetStatus(reqs, id, status) == [reqs EXCEPT ![id].status = status]

\* A Text column holds text: a number bound to it is stored as its digits.
DigitChar(d) ==
  CASE d = 0 -> "0" [] d = 1 -> "1" [] d = 2 -> "2" [] d = 3 -> "3" [] d = 4 -> "4"
    [] d = 5 -> "5" [] d = 6 -> "6" [] d = 7 -> "7" [] d = 8 -> "8" [] OTHER -> "9"

DbText(x) ==
  CASE x.t = "str" -> x
    [] x.t = "num" -> JStr(<<DigitChar(x.n \div 100)>>)
    [] OTHER -> JNull

\* ModerationResult(request_id, classification, confidence, reasoning,
\*                  llm_response)
NewResult(ress, request_id, verdict, at) ==
  [id |-> Len(ress) + 1, request_id |-> request_id,
   classification |-> verdict.classification, confidence |-> verdict.confidence,
   reasoning |-> DbText(verdict.reasoning), llm_response |-> verdict.llm_response,
   created_at |-> at]

(***************************************************************************)
(* Responses.  http is the status code the caller sees.                    *)
(***************************************************************************)
Response(h, n, email, kind, content_hash, http, cached, request_id, classification, confidence, reasoning, llm, scheduled) ==
  [handler |-> h, n |-> n, email |-> email, kind |-> kind,
   content_hash |-> content_hash, http |-> http, cached |-> cached,
   request_id |-> request_id, classification |-> classification,
   confidence |-> confidence, reasoning |-> reasoning, llm |-> llm,
   scheduled |-> scheduled, detail |-> <<>>, fetch |-> "", faults |-> {}]

ErrorResponse(h, n, email, kind, content_hash, http, request_id, llm) ==
  Response(h, n, email, kind, content_hash, http, FALSE, request_id, "", 0, JNull,
           llm, FALSE)

\* detail=f"Failed to analyze text content: {str(e)}" (lines 136-139), and
\* "Failed to analyze image content: ..." (lines 262-265).
ErrorDetail(kind, e) ==
  <<IF kind = "text" THEN "Failed to analyze text content: "
    ELSE "Failed to analyze image content: ", e>>

WithDetail(response, detail) == [response EXCEPT !.detail = detail]

\* What the handling of the submission downloaded: "" when it made no
\* download, else the outcome of the download.
WithFetch(response, fetch) == [response EXCEPT !.fetch = fetch]

\* The commits that raised while the submission was handled: "verdict" for
\* the commit of the verdict and the completed status, "mark" for the commit
\* of the failed status.
WithFaults(response, faults) == [response EXCEPT !.faults = faults]

\* TextModerationResponse / ImageModerationResponse: reasoning: Optional[str];
\* any other value fails validation when the response object is built.
ResponseValid(reasoning) == reasoning.t \in {"str", "null"}

(***************************************************************************)
(* Submission handlers (moderate_text, moderate_image).                    *)
(***************************************************************************)
\* `if existing_request:` ... `if latest_result:` -> return the cached result
HitReturns(existing, latest) == existing # None /\ latest # None

\* Mutant: a request found without a verdict is taken over: no new row is
\* added for the submission.
RequestsAfterDedup_Reuse(hit, reqs, row) ==
  IF hit \/ FilterRequests(reqs, row.content_hash, row.content_type) # {} THEN reqs
  ELSE Append(reqs, row)

\* Mutant: the request row is added before the cached result is returned.
RequestsAfterDedup_AddFirst(hit, reqs, row) == Append(reqs, row)

\* The cached return (line 64) comes before db.add(moderation_request)
\* (line 80): a hit leaves the table as it is, a miss appends the new row.
RequestsAfterDedup(hit, reqs, row) == IF hit THEN reqs ELSE Append(reqs, row)

\* Lines 48-85 of moderate_text and 174-211 of moderate_image: dedup lookup,
\* then either the cached response or a new request and the classification
\* call, which suspends the handler.
DedupOrCreate(h, email, kind, content_hash, preview, fetch) ==
  \E existing \in QueryFirst(FilterRequests(requests, content_hash, kind)) :
    \E latest \in (IF existing = None THEN {None}
                   ELSE LatestResult(results, existing)) :
      LET hit == HitReturns(existing, latest)
          row == NewRequest(requests, email, kind, content_hash, now)
      IN  /\ requests' = RequestsAfterDedup(hit, requests, row)
          /\ IF hit
               THEN /\ log' = Append(log,
                         WithFetch(
                           Response(h, started + 1, email, kind, content_hash, 200,
                                    TRUE, existing, results[latest].classification,
                                    results[latest].confidence,
                                    results[latest].reasoning, FALSE, FALSE),
                           fetch))
                    /\ UNCHANGED <<hs, now>>
               ELSE /\ hs' = [hs EXCEPT ![h] =
                         [IdleHandler EXCEPT !.pc = "awaiting_llm",
                                             !.n = started + 1,
                                             !.email = email, !.kind = kind,
                                             !.content_hash = content_hash,
                                             !.preview = preview,
                                             !.fetch = fetch,
                                             !.existing_request = existing,
                                             !.request_id = row.id]]
                    /\ now' = now + 1
                    /\ UNCHANGED log
          /\ started' = started + 1
          /\ UNCHANGED <<results, notification_logs, settings, dispatched, parser_vars>>

\* A new submission runs on a free handler; which one is immaterial, so it is
\* the first.
CanStart(h) ==
  /\ hs[h].pc = "idle"
  /\ \A g \in Handlers : g < h => hs[g].pc # "idle"

\* Mutant: the schema without min_length.
ValidText_NoMinimum(text) == Len(text) <= MaxTextLength

\* The schema check the transport layer makes before moderate_text runs.
ValidText(text) == Len(text) >= MinTextLength /\ Len(text) <= MaxTextLength

\* request.text[:200]
PreviewLength == 200
Truncate(text, k) == SubSeq(text, 1, IF Len(text) < k THEN Len(text) ELSE k)

moderate_text(h, email, text) ==
  /\ CanStart(h)
  /\ ValidText(text)
  /\ submitted' = Append(submitted, Submission("text", Len(text), "none"))
  /\ DedupOrCreate(h, email, "text", hash_text(text), Truncate(text, PreviewLength), "")

\* A text the schema rejects never reaches the handler: 422, nothing else.
RejectText(h, email, text) ==
  /\ CanStart(h)
  /\ ~ValidText(text)
  /\ submitted' = Append(submitted, Submission("text", Len(text), "none"))
  /\ log' = Append(log,
       WithDetail(ErrorResponse(h, started + 1, email, "text", <<>>, 422, None,
                                FALSE),
                  <<"text: length out of range">>))
  /\ started' = started + 1
  /\ UNCHANGED <<store, settings, dispatched, hs, parser_vars>>

\* self.max_image_size = 10 * 1024 * 1024
MaxImageSize == 10485760

\* len(image_bytes)
ByteLength(bytes) == IF bytes = BigImage THEN MaxImageSize + 1 ELSE Len(bytes)

\* _validate_and_get_mime_type accepts the bytes (PIL opens them and the
\* format is a supported one).
IsImage(bytes) == bytes = <<"i", "m", "g", "1">>

\* What is wrong with an image request, "none" when process_image returns the
\* bytes: the handler takes the URL when there is one, else the inline
\* payload, else raises (lines 163-172); fetched is the outcome of the
\* download of a URL.
ImageDefect(img, fetched) ==
  IF img.image_url # <<>> THEN (IF fetched = "ok" THEN "none" ELSE fetched)
  ELSE IF img.image_base64.body # ""
    THEN LET image_bytes == B64Decode(img.image_base64.body)
         IN  IF image_bytes = Undecodable THEN "undecodable"
             ELSE IF ByteLength(image_bytes) > MaxImageSize THEN "too_large"
             ELSE IF ~IsImage(image_bytes) THEN "unsupported"
             ELSE "none"
  ELSE "missing"

\* Mutant: the handler goes on although process_image raised.
ProcessImageOk_Always(img, fetched) == TRUE

\* image_service.process_image returns the image bytes.
ProcessImageOk(img, fetched) == ImageDefect(img, fetched) = "none"

ImageHash(img) ==
  IF img.image_url # <<>> THEN hash_url(img.image_url)
  ELSE hash_image(img.image_base64)

ImagePrefix ==
  <<"I", "m", "a", "g", "e", " ", "f", "r", "o", "m", " ", "U", "R", "L", ":", " ">>

ImagePreview(img) ==
  IF img.image_url # <<>> THEN ImagePrefix \o img.image_url
  ELSE <<"Image from base64 data">>

\* process_image(image_url=...) downloads the URL (lines 163-164); an inline
\* payload is decoded in place.
Download(img, fetched) == IF img.image_url # <<>> THEN fetched ELSE ""

moderate_image(h, email, img, fetched) ==
  /\ CanStart(h)
  /\ ProcessImageOk(img, fetched)
  /\ submitted' = Append(submitted,
                         Submission("image", 0, ImageDefect(img, fetched)))
  /\ DedupOrCreate(h, email, "image", ImageHash(img), ImagePreview(img),
                   Download(img, fetched))

\* process_image raised, or neither field was given: the handler's
\* `except Exception` answers 500; no request was created.
ImageError(h, email, img, fetched) ==
  /\ CanStart(h)
  /\ ~ProcessImageOk(img, fetched)
  /\ submitted' = Append(submitted,
                         Submission("image", 0, ImageDefect(img, fetched)))
  /\ log' = Append(log,
       WithFetch(
         WithDetail(ErrorResponse(h, started + 1, email, "image", <<>>, 500, None,
                                  FALSE),
                    ErrorDetail("image", ImageDefect(img, fetched))),
         Download(img, fetched)))
  /\ started' = started + 1
  /\ UNCHANGED <<store, settings, dispatched, hs, parser_vars>>

\* Mutant: no background task is ever added.
DispatchGate_Never(verdict) == FALSE

\* `if llm_result['flagged']:` (lines 102 and 228)
DispatchGate(verdict) == Truthy(verdict.flagged)

\* The classification call returned: parse, store the verdict, mark the
\* request completed, commit (lines 85-99), add the background task (102-112).
LlmReturn(h, raw) ==
  /\ hs[h].pc = "awaiting_llm"
  /\ ~parse_llm_response(raw).exc
  /\ LET verdict == parse_llm_response(raw).value
     IN  /\ results' = Append(results,
                              NewResult(results, hs[h].request_id, verdict, now))
         /\ requests' = SetStatus(requests, hs[h].request_id, "completed")
         /\ hs' = [hs EXCEPT ![h].pc = "committed",
                             ![h].classification = verdict.classification,
                             ![h].confidence = verdict.confidence,
                             ![h].reasoning = verdict.reasoning,
                             ![h].flagged = DispatchGate(verdict)]
  /\ now' = now + 1
  /\ UNCHANGED <<notification_logs, settings, submitted, dispatched, started, log, parser_vars>>

\* Mutant: the except block answers 500 without marking the request failed.
StatusOnError_Unmarked(reqs, id) == reqs

\* The handler's `except Exception` (lines 128-139 and 254-265):
\* moderation_request.status = FAILED; db.commit(); HTTP 500.
StatusOnError(reqs, id) == SetStatus(reqs, id, "failed")

\* The classification call raised, or the parser let an exception out.
LlmRaise(h, raw) ==
  /\ hs[h].pc = "awaiting_llm"
  /\ raw \in UpstreamFailures \/ parse_llm_response(raw).exc
  /\ requests' = StatusOnError(requests, hs[h].request_id)
  /\ log' = Append(log,
       WithFetch(
         WithDetail(ErrorResponse(h, hs[h].n, hs[h].email, hs[h].kind,
                                  hs[h].content_hash, 500, hs[h].request_id, TRUE),
                    ErrorDetail(hs[h].kind, ErrorText(raw))),
         hs[h].fetch))
  /\ hs' = [hs EXCEPT ![h] = IdleHandler]
  /\ UNCHANGED <<results, notification_logs, now, settings, submitted, dispatched, started,
                 parser_vars>>

\* Lines 114-126: build the response.  When the response model rejects the
\* verdict, the handler's except block runs after the commit of line 99, and
\* the tasks added to background_tasks are dropped with the response.
Respond(h) ==
  /\ hs[h].pc = "committed"
  /\ IF ResponseValid(hs[h].reasoning)
       THEN /\ log' = Append(log,
                 WithFetch(
                   Response(h, hs[h].n, hs[h].email, hs[h].kind, hs[h].content_hash,
                            200, FALSE, hs[h].request_id, hs[h].classification,
                            hs[h].confidence, hs[h].reasoning, TRUE, hs[h].flagged),
                   hs[h].fetch))
            /\ hs' = [hs EXCEPT ![h] =
                 IF hs[h].flagged THEN [hs[h] EXCEPT !.pc = "background"]
                 ELSE IdleHandler]
            /\ UNCHANGED requests
       ELSE /\ requests' = StatusOnError(requests, hs[h].request_id)
            /\ log' = Append(log,
                 WithFetch(
                   WithDetail(
                     ErrorResponse(h, hs[h].n, hs[h].email, hs[h].kind,
                                   hs[h].content_hash, 500, hs[h].request_id, TRUE),
                     ErrorDetail(hs[h].kind, ErrorText(<<>>))),
                   hs[h].fetch))
            /\ hs' = [hs EXCEPT ![h] = IdleHandler]
  /\ UNCHANGED <<results, notification_logs, now, settings, submitted, dispatched, started,
                 parser_vars>>

(***************************************************************************)
(* Store faults: a db.commit() of a handler raises.                        *)
(***************************************************************************)
\* str(e) of the exception a failing commit raises.
StoreErrorText == "(OperationalError) database is unavailable"

\* Mutant: the application-wide handler answers success.
global_exception_handler_Swallow(exc) ==
  [http |-> 200, detail |-> <<"Internal Server Error", "An unexpected error occurred">>]

\* main.py, @app.exception_handler(Exception): the answer to an exception
\* that leaves a route handler.
global_exception_handler(exc) ==
  [http |-> 500, detail |-> <<"Internal Server Error", "An unexpected error occurred">>]

\* What the caller gets from the handler's except block for exception e
\* (lines 128-139): the HTTPException of line 136 when db.commit() of line
\* 134 returned; when that commit raised, its exception leaves the handler.
ExceptBlockAnswer(kind, e, marked) ==
  IF marked THEN [http |-> 500, detail |-> ErrorDetail(kind, e)]
  ELSE global_exception_handler(StoreErrorText)

\* The request rows after the except block: the failed status is stored only
\* when its commit returned.
RequestsAfterExcept(reqs, id, marked) ==
  IF marked THEN StatusOnError(reqs, id) ELSE reqs

\* The classification call returned a verdict, and the commit of line 99
\* raised: the session rolls the verdict row and the completed status back,
\* and the except block runs; marked says whether its own commit returned.
VerdictCommitFails(h, raw, marked) ==
  /\ hs[h].pc = "awaiting_llm"
  /\ ~parse_llm_response(raw).exc
  /\ requests' = RequestsAfterExcept(requests, hs[h].request_id, marked)
  /\ LET answer == ExceptBlockAnswer(hs[h].kind, StoreErrorText, marked)
     IN  log' = Append(log,
           WithFaults(
             WithFetch(
               WithDetail(ErrorResponse(h, hs[h].n, hs[h].email, hs[h].kind,
                                        hs[h].content_hash, answer.http,
                                        hs[h].request_id, TRUE),
                          answer.detail),
               hs[h].fetch),
             IF marked THEN {"verdict"} ELSE {"verdict", "mark"}))
  /\ hs' = [hs EXCEPT ![h] = IdleHandler]
  /\ UNCHANGED <<results, notification_logs, now, settings, submitted, dispatched, started,
                 parser_vars>>

\* The classification call raised, and the commit of the failed status
\* (line 134) raised as well.
MarkCommitFails(h, raw) ==
  /\ hs[h].pc = "awaiting_llm"
  /\ raw \in UpstreamFailures \/ parse_llm_response(raw).exc
  /\ requests' = RequestsAfterExcept(requests, hs[h].request_id, FALSE)
  /\ LET answer == ExceptBlockAnswer(hs[h].kind, ErrorText(raw), FALSE)
     IN  log' = Append(log,
           WithFaults(
             WithFetch(
               WithDetail(ErrorResponse(h, hs[h].n, hs[h].email, hs[h].kind,
                                        hs[h].content_hash, answer.http,
                                        hs[h].request_id, TRUE),
                          answer.detail),
               hs[h].fetch),
             {"mark"}))
  /\ hs' = [hs EXCEPT ![h] = IdleHandler]
  /\ UNCHANGED <<results, notification_logs, now, settings, submitted, dispatched, started,
                 parser_vars>>

(***************************************************************************)
(* Background dispatch (send_notifications_background, send_notifications) *)
(* of a handler whose response has been returned.                          *)
(***************************************************************************)
\* One channel of send_notifications: skipped ("") when it is not configured,
\* otherwise "sent", or "failed" when the send raised.
ChannelResult(configured, ok) ==
  IF ~configured THEN "" ELSE IF ok THEN "sent" ELSE "failed"

\* Mutant: an exception of the chat send leaves send_notifications, so the
\* email channel is not attempted.
SendResults_Abort(classification, cfg, slack_ok, email_ok) ==
  IF classification = "safe" THEN [slack |-> "", mail |-> ""]
  ELSE [slack |-> ChannelResult(cfg.slack_webhook_url, slack_ok),
        mail |-> IF cfg.slack_webhook_url /\ ~slack_ok THEN ""
                 ELSE ChannelResult(cfg.brevo, email_ok)]

\* Mutant: send_notifications without the SAFE check of lines 42-44.
SendResults_NoSafeSkip(classification, cfg, slack_ok, email_ok) ==
  [slack |-> ChannelResult(cfg.slack_webhook_url, slack_ok),
   mail |-> ChannelResult(cfg.brevo, email_ok)]

\* NotificationService.send_notifications (lines 39-70): nothing is sent for
\* SAFE; then the chat channel and the email channel, each in its own try.
SendResults(classification, cfg, slack_ok, email_ok) ==
  IF classification = "safe" THEN [slack |-> "", mail |-> ""]
  ELSE [slack |-> ChannelResult(cfg.slack_webhook_url, slack_ok),
        mail |-> ChannelResult(cfg.brevo, email_ok)]

\* Mutant: the task runs where add_task is called, before the response is
\* built.
TaskRunnable_AtAddTask(handler) ==
  \/ handler.pc = "background"
  \/ handler.pc = "committed" /\ handler.flagged

\* background_tasks.add_task(send_notifications_background, ...) (lines
\* 103-112) only queues the task: it runs once the handler has returned its
\* response.
TaskRunnable(handler) == handler.pc = "background"

send_notifications(h, slack_ok, email_ok) ==
  /\ TaskRunnable(hs[h])
  /\ LET res == SendResults(hs[h].classification, settings, slack_ok, email_ok)
     IN  hs' = [hs EXCEPT ![h].pc = "bg_record",
                          ![h].slack = res.slack,
                          ![h].mail = res.mail]
  /\ UNCHANGED <<store, settings, submitted, dispatched, started, log, parser_vars>>

\* Mutant: sent_at is a time after the creation of the request.
NotificationLog_SentLater(request_id, channel, outcome, reqs) ==
  [request_id |-> request_id, channel |-> channel,
   status |-> IF outcome = "sent" THEN "sent" ELSE "failed",
   error_message |-> IF outcome = "sent" THEN "" ELSE "error",
   sent_at |-> reqs[request_id].created_at + 1]

\* Mutant: the error of a failed send is not recorded.
NotificationLog_NoError(request_id, channel, outcome, reqs) ==
  [request_id |-> request_id, channel |-> channel,
   status |-> IF outcome = "sent" THEN "sent" ELSE "failed",
   error_message |-> "",
   sent_at |-> reqs[request_id].created_at]

\* NotificationLog(request_id, channel, status, error_message, sent_at)
NotificationLog(request_id, channel, outcome, reqs) ==
  [request_id |-> request_id, channel |-> channel,
   status |-> IF outcome = "sent" THEN "sent" ELSE "failed",
   error_message |-> IF outcome = "sent" THEN "" ELSE "error",
   sent_at |-> reqs[request_id].created_at]

\* Mutant: only the sends that succeeded are recorded.
NotificationRows_SentOnly(request_id, slack, mail, reqs) ==
  (IF slack # "sent" THEN <<>>
   ELSE <<NotificationLog(request_id, "slack", slack, reqs)>>)
  \o (IF mail # "sent" THEN <<>>
      ELSE <<NotificationLog(request_id, "email", mail, reqs)>>)

\* The rows lines 299-308 add for the results of one dispatch.
NotificationRows(request_id, slack, mail, reqs) ==
  (IF slack = "" THEN <<>>
   ELSE <<NotificationLog(request_id, "slack", slack, reqs)>>)
  \o (IF mail = "" THEN <<>>
      ELSE <<NotificationLog(request_id, "email", mail, reqs)>>)

\* The session of the background task (db = SessionLocal(), line 292) is
\* closed by db.close() at line 311, the statement after db.commit() inside
\* the try: an exception raised before it goes to the except of lines
\* 315-316, which logs and does not close; there is no finally.
SessionClosed(raised) == ~raised

\* Lines 299-311 of moderation.py: one row per entry of notification_results,
\* then db.commit().
RecordNotifications(h) ==
  /\ hs[h].pc = "bg_record"
  /\ notification_logs' =
       notification_logs
       \o NotificationRows(hs[h].request_id, hs[h].slack, hs[h].mail, requests)
  /\ dispatched' = dispatched \cup {[request_id |-> hs[h].request_id,
                                     recorded |-> TRUE,
                                     closed |-> SessionClosed(FALSE)]}
  /\ hs' = [hs EXCEPT ![h] = IdleHandler]
  /\ UNCHANGED <<requests, results, now, settings, submitted, started, log,
                 parser_vars>>

\* Mutant: the except block of the background task marks the request failed,
\* as the except blocks of the handlers do.
RequestsOnDispatchError_MarkFailed(reqs, id) == SetStatus(reqs, id, "failed")

\* The except block of send_notifications_background (lines 315-316) only
\* logs: the request row is not written.
RequestsOnDispatchError(reqs, id) == reqs

\* The session raises while the rows are written (lines 300-310): the except
\* of line 315 logs the error and the task ends; nothing was committed.
RecordFails(h) ==
  /\ hs[h].pc = "bg_record"
  /\ requests' = RequestsOnDispatchError(requests, hs[h].request_id)
  /\ dispatched' = dispatched \cup {[request_id |-> hs[h].request_id,
                                     recorded |-> FALSE,
                                     closed |-> SessionClosed(TRUE)]}
  /\ hs' = [hs EXCEPT ![h] = IdleHandler]
  /\ UNCHANGED <<results, notification_logs, now, settings, submitted, started, log,
                 parser_vars>>

(***************************************************************************)
(* The pipeline.                                                           *)
(***************************************************************************)
\* The arrival of one submission at handler h.
Submit(h) ==
  \/ \E req \in TextRequests : moderate_text(h, req.email, req.text)
  \/ \E req \in TextRequests : RejectText(h, req.email, req.text)
  \/ \E req \in ImageRequests, fetched \in FetchOutcomes :
       moderate_image(h, req.email, req, fetched)
  \/ \E req \in ImageRequests, fetched \in FetchOutcomes :
       ImageError(h, req.email, req, fetched)

\* The later steps of a handler: the classification call ends, the response is
\* built, the background task runs.
Continue(h) ==
  \/ \E raw \in UpstreamResponses : LlmReturn(h, raw)
  \/ \E raw \in UpstreamResponses \cup UpstreamFailures : LlmRaise(h, raw)
  \/ Respond(h)
  \/ \E slack_ok \in BOOLEAN, email_ok \in BOOLEAN :
       send_notifications(h, slack_ok, email_ok)
  \/ RecordNotifications(h)
  \/ RecordFails(h)

\* Submissions arrive at any time: handlers overlap.
Next ==
  \E h \in Handlers :
    \/ started < MaxSubmissions /\ Submit(h)
    \/ Continue(h)

Spec == Init /\ [][Next]_vars

\* Submissions arrive one after the other: a submission arrives only when
\* every earlier one has returned and its background task has ended.
AllIdle == \A h \in Handlers : hs[h].pc = "idle"

SeqNext ==
  \E h \in Handlers :
    \/ started < MaxSequential /\ AllIdle /\ Submit(h)
    \/ Continue(h)

SeqSpec == Init /\ [][SeqNext]_vars

\* Submissions of one content by two submitters, overlapping or one after the
\* other, every classification call returning one of two verdicts that are
\* not flagged (no dispatch is scheduled for them): the setting in which a
\* content is answered from the cache more than once.
SameContentRequests ==
  {TextRequest("u1@x.org", <<"a">>), TextRequest("u2@x.org", <<" ", "A">>)}

HitVerdicts == {UnflaggedToxic, PlainProse}

HitNext ==
  \E h \in Handlers :
    \/ /\ started < MaxHits
       /\ \E req \in SameContentRequests : moderate_text(h, req.email, req.text)
    \/ \E raw \in HitVerdicts : LlmReturn(h, raw)
    \/ Respond(h)

HitSpec == Init /\ [][HitNext]_vars

\* The handler is cancelled while it waits for the classification call:
\* asyncio.CancelledError is raised at the await of line 85 / 211.  It is a
\* BaseException, so `except Exception` (lines 128, 254) does not run: the
\* request row stays as committed at line 81 / 207 and no response is built
\* (http 0 in the log stands for no answer).
Cancel(h) ==
  /\ hs[h].pc = "awaiting_llm"
  /\ log' = Append(log,
       WithFaults(
         WithFetch(ErrorResponse(h, hs[h].n, hs[h].email, hs[h].kind,
                                 hs[h].content_hash, 0, hs[h].request_id, TRUE),
                   hs[h].fetch),
         {"cancelled"}))
  /\ hs' = [hs EXCEPT ![h] = IdleHandler]
  /\ UNCHANGED <<store, settings, submitted, dispatched, started, parser_vars>>

\* The pipeline with cancellation.  Every handler that can go on does so in
\* the end: the classification call returns or raises, and the event loop
\* runs the handler and its background task.
CancelNext ==
  \E h \in Handlers :
    \/ started < MaxSubmissions /\ Submit(h)
    \/ Continue(h)
    \/ Cancel(h)

CancelSpec ==
  Init /\ [][CancelNext]_vars /\ WF_vars(\E h \in Handlers : Continue(h))

\* The pipeline on a store whose commits may raise.
StoreFault(h) ==
  \/ \E raw \in UpstreamResponses, marked \in BOOLEAN : VerdictCommitFails(h, raw, marked)
  \/ \E raw \in UpstreamResponses \cup UpstreamFailures : MarkCommitFails(h, raw)

FaultNext ==
  \E h \in Handlers :
    \/ started < MaxSubmissions /\ Submit(h)
    \/ Continue(h)
    \/ StoreFault(h)

FaultSpec == Init /\ [][FaultNext]_vars

(***************************************************************************)
(* The verdict parser on its own: every input of ParserInputs is parsed.   *)
(***************************************************************************)
ClassificationValues ==
  {JMissing, JStr(Chars_toxic), JStr(<<"S", "P", "A", "M">>), JStr(Chars_safe),
   JStr(<<"x">>), JNum(100), JNull}

ConfidenceValues ==
  {JMissing, JNum(-50), JNum(0), JNum(92), JNum(150), JStr(<<"0", ".", "9", "2">>),
   JStr(<<"h", "i", "g", "h">>), JNull, JNaN, JBool(TRUE)}

ReasoningValues == {JMissing, JStr(<<"abuse">>), JNum(500)}

FlaggedValues == {JMissing, JBool(TRUE), JBool(FALSE), JStr(<<"n", "o">>), JNull}

Objects ==
  {Members(c, f, r, g) : c \in ClassificationValues, f \in ConfidenceValues,
                         r \in ReasoningValues, g \in FlaggedValues}

ParserInputs ==
  {<<LBrace, Body(m), RBrace>> : m \in Objects}
  \cup {<<Prose, LBrace, Body(m), RBrace, Prose>> : m \in Objects}
  \cup {<<>>, <<Prose>>, <<LBrace>>, <<RBrace, LBrace>>, <<LBrace, RBrace>>,
        <<LBrace, Prose, RBrace>>, <<LBrace, LBrace, RBrace>>,
        <<LBrace, Body(NoMembers), RBrace, Prose, LBrace, Body(NoMembers), RBrace>>,
        <<LBrace, Body(NoMembers), RBrace, RBrace>>}

ParserInit ==
  /\ requests = <<>>
  /\ results = <<>>
  /\ notification_logs = <<>>
  /\ now = 1
  /\ settings = [slack_webhook_url |-> TRUE, brevo |-> TRUE]
  /\ hs = [h \in Handlers |-> IdleHandler]
  /\ started = 0
  /\ log = <<>>
  /\ dispatched = {}
  /\ submitted = <<>>
  /\ response_text \in ParserInputs
  /\ llm_result = NotParsed
  /\ text_t = <<>>
  /\ text_u = <<>>
  /\ digests = NotHashed
  /\ content = NoContent
  /\ messages = NotBuilt

Parse ==
  /\ ~llm_result.called
  /\ llm_result' = [called |-> TRUE, exc |-> parse_llm_response(response_text).exc,
                    value |-> parse_llm_response(response_text).value]
  /\ UNCHANGED <<store, settings, submitted, dispatched, hs, started, log, response_text,
                 hash_vars, preview_vars>>

ParserNext == Parse

ParserSpec == ParserInit /\ [][ParserNext]_vars

-----------------------------------------------------------------------------
\* hash_text on its own: a text, a variant of it that differs in leading and
\* trailing whitespace, letter case and whitespace run length, and their
\* fingerprints.

HashAlphabet == {"a", "A", " ", "\t", CapitalSigma, SmallSigma, FinalSigma}

RECURSIVE TextsUpTo(_)
TextsUpTo(n) ==
  IF n = 0 THEN {<<>>}
  ELSE TextsUpTo(n - 1) \cup
       {Append(t, c) : t \in {x \in TextsUpTo(n - 1) : Len(x) = n - 1}, c \in HashAlphabet}

HashedTexts == TextsUpTo(MaxHashedLength)

Whitespace == {c \in HashAlphabet : IsSpace(c)}

\* str.upper() on one character; both small sigmas have the capital sigma.
UpperChar(c) ==
  IF c = "a" THEN "A"
  ELSE IF c \in {SmallSigma, FinalSigma} THEN CapitalSigma
  ELSE c

\* The characters that differ from c in letter case only.
CaseVariants(c) == {d \in HashAlphabet : d # c /\ (d = UpperChar(c) \/ c = UpperChar(d))}

RemoveAt(s, i) == SubSeq(s, 1, i - 1) \o SubSeq(s, i + 1, Len(s))

InsertAfter(s, i, c) == SubSeq(s, 1, i) \o <<c>> \o SubSeq(s, i + 1, Len(s))

\* The texts one elementary change away from s: whitespace added or removed at
\* either end, the case of one letter changed, a run of whitespace made longer
\* or (while one whitespace character of it remains) shorter.
Variants(s) ==
  {<<w>> \o s : w \in Whitespace}
    \cup {Append(s, w) : w \in Whitespace}
    \cup {RemoveAt(s, i) : i \in {j \in {1, Len(s)} \cap (1..Len(s)) : IsSpace(s[j])}}
    \cup {[s EXCEPT ![i[1]] = i[2]] :
            i \in {x \in (1..Len(s)) \X HashAlphabet : x[2] \in CaseVariants(s[x[1]])}}
    \cup {InsertAfter(s, i[1], i[2]) :
            i \in {x \in (1..Len(s)) \X Whitespace : IsSpace(s[x[1]])}}
    \cup {RemoveAt(s, i) :
            i \in {j \in 1..(Len(s) - 1) : IsSpace(s[j]) /\ IsSpace(s[j + 1])}}

HashInit ==
  /\ requests = <<>>
  /\ results = <<>>
  /\ notification_logs = <<>>
  /\ now = 1
  /\ settings = [slack_webhook_url |-> TRUE, brevo |-> TRUE]
  /\ hs = [h \in Handlers |-> IdleHandler]
  /\ started = 0
  /\ log = <<>>
  /\ dispatched = {}
  /\ submitted = <<>>
  /\ response_text = <<>>
  /\ llm_result = NotParsed
  /\ text_t \in HashedTexts
  /\ text_u = text_t
  /\ digests = NotHashed
  /\ content = NoContent
  /\ messages = NotBuilt

Vary ==
  /\ ~digests.called
  /\ \E v \in Variants(text_u) :
       /\ Len(v) <= MaxVariantLength
       /\ text_u' = v
  /\ UNCHANGED <<store, settings, submitted, dispatched, hs, started, log, response_text,
                 llm_result, text_t, digests, preview_vars>>

Fingerprint ==
  /\ ~digests.called
  /\ digests' = [called |-> TRUE, t |-> hash_text(text_t), u |-> hash_text(text_u),
                 n |-> hash_text(NormalizeText(text_t))]
  /\ UNCHANGED <<store, settings, submitted, dispatched, hs, started, log, response_text,
                 llm_result, text_t, text_u, preview_vars>>

HashNext == Vary \/ Fingerprint

HashSpec == HashInit /\ [][HashNext]_vars

(***************************************************************************)
(* The content preview of the alert messages: the handler hands a preview  *)
(* of the content to the dispatcher, and each channel embeds it in its     *)
(* message.                                                                *)
(***************************************************************************)

\* The truncation marker of line 130 of notification_service.py.
Ellipsis == <<".", ".", ".">>

\* moderate_text passes request.text[:200] (line 109 of moderation.py);
\* moderate_image passes the description of the image (line 166, passed
\* at line 235).
ContentPreview(c) ==
  IF c.kind = "text" THEN Truncate(c.chars, PreviewLength)
  ELSE ImagePrefix \o c.chars

\* The "Content Preview" field of the chat message (line 130):
\* content_preview[:200] + "..." if len(content_preview) > 200
\* else content_preview.
SlackPreview(content_preview) ==
  IF Len(content_preview) > PreviewLength
  THEN Truncate(content_preview, PreviewLength) \o Ellipsis
  ELSE content_preview

\* The preview of the email bodies (lines 204 and 223): {content_preview}.
EmailPreview(content_preview) == content_preview

Filler(n, ch) == [i \in 1..n |-> IF i % 2 = 1 THEN ch ELSE "-"]

PreviewContents ==
  [kind : {"text", "image"},
   chars : {Filler(n, ch) : n \in MinTextLength..MaxContentLength,
                            ch \in {"a", "b"}},
   classification : {"toxic", "safe"}]

PreviewInit ==
  /\ requests = <<>>
  /\ results = <<>>
  /\ notification_logs = <<>>
  /\ now = 1
  /\ settings = [slack_webhook_url |-> TRUE, brevo |-> TRUE]
  /\ hs = [h \in Handlers |-> IdleHandler]
  /\ started = 0
  /\ log = <<>>
  /\ dispatched = {}
  /\ submitted = <<>>
  /\ response_text = <<>>
  /\ llm_result = NotParsed
  /\ text_t = <<>>
  /\ text_u = <<>>
  /\ digests = NotHashed
  /\ content \in PreviewContents
  /\ messages = NotBuilt

\* send_notifications (lines 20-70 of notification_service.py) for one
\* content with both channels configured: nothing is built for safe
\* content (lines 42-44).
BuildMessages ==
  /\ ~messages.called
  /\ content.classification # "safe"
  /\ messages' = [called |-> TRUE,
                  slack |-> SlackPreview(ContentPreview(content)),
                  mail |-> EmailPreview(ContentPreview(content))]
  /\ UNCHANGED <<requests, results, notification_logs, now, settings, hs,
                 started, log, dispatched, submitted, response_text,
                 llm_result, hash_vars, content>>

PreviewNext == BuildMessages

PreviewSpec == PreviewInit /\ [][PreviewNext]_vars


(***************************************************************************)
(* The per-submitter analytics summary (GET /analytics/summary).  It reads *)
(* the store and writes nothing; the counts are those of lines 59-79 of    *)
(* analytics.py.                                                           *)
(***************************************************************************)

\* len([r for r in results if r.classification == classification]) over the
\* results of the submitter's requests (lines 63-76).
CountResults(reqs, ress, user, classification) ==
  Cardinality({i \in DOMAIN ress :
                 /\ reqs[ress[i].request_id].email = user
                 /\ ress[i].classification = classification})

\* flagged_content = total_requests - safe_content (line 79).
FlaggedContent(reqs, ress, user, total_requests, safe_content) ==
  total_requests - safe_content

get_user_analytics_summary(reqs, ress, user) ==
  LET total_requests == Cardinality({i \in DOMAIN reqs : reqs[i].email = user})
      safe_content == CountResults(reqs, ress, user, "safe")
  IN  [email |-> user,
       total_requests |-> total_requests,
       safe_content |-> safe_content,
       flagged_content |->
         IF total_requests = 0 THEN 0
         ELSE FlaggedContent(reqs, ress, user, total_requests, safe_content),
       toxic_content |-> CountResults(reqs, ress, user, "toxic"),
       spam_content |-> CountResults(reqs, ress, user, "spam"),
       harassment_content |-> CountResults(reqs, ress, user, "harassment"),
       inappropriate_content |->
         CountResults(reqs, ress, user, "inappropriate")]


(***************************************************************************)
(* Properties.                                                             *)
(***************************************************************************)
Last(seq) == seq[Len(seq)]

\* The submissions answered so far that carried the content (kind, hash).
Answered(kind, content_hash) ==
  {i \in DOMAIN log : log[i].kind = kind /\ log[i].content_hash = content_hash}

\* A verdict is stored for some request with the key (kind, hash).
VerdictStored(kind, content_hash) ==
  \E i \in FilterRequests(requests, content_hash, kind) :
    ResultsOf(results, i) # {}

\* The most recently created request with the key that has a verdict.
MostRecentWithVerdict(kind, content_hash) ==
  SetMax({i \in FilterRequests(requests, content_hash, kind) :
            ResultsOf(results, i) # {}})

\* This step answers a submission from the cache.
CacheHitStep == Len(log') = Len(log) + 1 /\ Last(log').cached

\* This step is a cache miss of handler h: it creates a request and calls the
\* classification client.
CacheMissStep(h) == hs[h].pc = "idle" /\ hs'[h].pc = "awaiting_llm"

\* C1: dedup idempotence.  When a content was submitted exactly twice, one
\* call after the other, and the first call succeeded, the two calls made
\* exactly one classification call and at most one dispatch (exactly one when
\* the verdict is not safe), and the second call returned the classification,
\* confidence and reasoning of the first.
C1_DedupIdempotence ==
  \A i, j \in DOMAIN log :
    ( /\ i < j
      /\ log[i].content_hash # <<>>
      /\ Answered(log[i].kind, log[i].content_hash) = {i, j}
      /\ log[i].http = 200 )
    => /\ Cardinality({k \in {i, j} : log[k].llm}) = 1
       /\ Cardinality({k \in {i, j} : log[k].scheduled}) <= 1
       /\ log[i].classification # "safe"
            => Cardinality({k \in {i, j} : log[k].scheduled}) = 1
       /\ log[j].http = 200
       /\ log[j].classification = log[i].classification
       /\ log[j].confidence = log[i].confidence
       /\ log[j].reasoning = log[i].reasoning

\* C2: once a verdict is stored for some request with a key (kind,
\* fingerprint), no later submission with that key is a cache miss: none
\* creates a request or calls the classification client.
C2_StoredVerdictIsAlwaysHit ==
  [][\A h \in Handlers :
       CacheMissStep(h) => ~VerdictStored(hs'[h].kind, hs'[h].content_hash)]_vars

\* C3: when several stored requests share the key of a new submission and one
\* of them has a verdict, the submission is answered from the most recently
\* created request that has a verdict: it is not a miss, and the response
\* carries that request's id and verdict.
C3_MostRecentVerdictIsCanonical ==
  [][/\ \A h \in Handlers :
          ( /\ CacheMissStep(h)
            /\ Cardinality(FilterRequests(requests, hs'[h].content_hash,
                                          hs'[h].kind)) >= 2 )
          => ~VerdictStored(hs'[h].kind, hs'[h].content_hash)
     /\ ( /\ CacheHitStep
          /\ Cardinality(FilterRequests(requests, Last(log').content_hash,
                                        Last(log').kind)) >= 2 )
        => /\ Last(log').request_id =
                MostRecentWithVerdict(Last(log').kind, Last(log').content_hash)
           /\ \E r \in ResultsOf(results, Last(log').request_id) :
                /\ Last(log').classification = results[r].classification
                /\ Last(log').confidence = results[r].confidence
                /\ Last(log').reasoning = results[r].reasoning]_vars

\* C4: a cache hit leaves the store unchanged and schedules nothing: no
\* request, verdict or notification row is added, no status changes, and no
\* handler starts a background dispatch.
C4_CacheHitChangesNothing ==
  [][CacheHitStep =>
       /\ requests' = requests
       /\ results' = results
       /\ notification_logs' = notification_logs
       /\ hs' = hs
       /\ ~Last(log').scheduled]_vars

\* A submission was answered from the cache while rows were stored.
C4_Witness ==
  \E i \in DOMAIN log : log[i].cached /\ log[i].http = 200 /\ requests # <<>>

\* C5: for every verdict a submission uses, flagged equals
\* (classification # safe), whatever the upstream object said in its own
\* `flagged` member.
C5_FlaggedIsDerived ==
  \A h \in Handlers :
    hs[h].pc = "committed" => (hs[h].flagged <=> hs[h].classification # "safe")

\* C6: every cache miss whose classification call succeeded with a
\* classification other than safe handed a dispatch job to the dispatcher.
C6_NonSafeIsDispatched ==
  \A i \in DOMAIN log :
    (~log[i].cached /\ log[i].http = 200 /\ log[i].classification # "safe")
    => log[i].scheduled

\* This step is handler h leaving the classification call by its exception.
LlmRaiseStep(h) == hs[h].pc = "awaiting_llm" /\ hs'[h].pc = "idle"

\* The submissions answered with an error whose request has no verdict.
FailedWithoutVerdict ==
  {i \in DOMAIN log :
     /\ log[i].http = 500
     /\ log[i].request_id # None
     /\ ResultsOf(results, log[i].request_id) = {}}

\* C7: when the classification call raises on a cache miss, the caller gets
\* an error, the created request ends in status failed, no verdict is stored
\* for it and no dispatch is scheduled or recorded for it.
C7_UpstreamFailure ==
  /\ [](\A i \in FailedWithoutVerdict :
          /\ requests[log[i].request_id].status = "failed"
          /\ ~log[i].scheduled
          /\ \A k \in DOMAIN notification_logs :
               notification_logs[k].request_id # log[i].request_id)
  /\ [][\A h \in Handlers :
          LlmRaiseStep(h) =>
            /\ Len(log') = Len(log) + 1
            /\ Last(log').n = hs[h].n
            /\ Last(log').http = 500
            /\ requests'[hs[h].request_id].status = "failed"
            /\ ResultsOf(results', hs[h].request_id) = {}
            /\ notification_logs' = notification_logs]_vars

\* A classification call raised and its submission was answered.
C7_Witness ==
  \E i \in FailedWithoutVerdict : log[i].llm /\ requests[log[i].request_id].status = "failed"

\* C8: terminal statuses are absorbing: a request in status completed or
\* failed keeps that status in every later step.
C8_TerminalIsAbsorbing ==
  [][\A i \in DOMAIN requests :
       requests[i].status \in {"completed", "failed"}
       => requests'[i].status = requests[i].status]_vars

\* C9: the parser is total: for every input it returns, without raising, a
\* verdict whose classification is one of the five values and whose
\* confidence lies in [0.0, 1.0].
C9_ParserIsTotal ==
  llm_result.called =>
    /\ ~llm_result.exc
    /\ llm_result.value.classification \in ClassificationType
    /\ llm_result.value.confidence \in 0..100
    /\ llm_result.value.llm_response = response_text

\* The parser ran on an object whose confidence is a number outside [0, 1].
C9_Witness ==
  /\ llm_result.called
  /\ json_match(response_text) # <<>>
  /\ JsonDecodable(json_match(response_text))
  /\ ~TryBlock(response_text).exc
  /\ json_loads(json_match(response_text)).confidence.t = "num"
  /\ json_loads(json_match(response_text)).confidence.n \notin 0..100

\* The input holds a decodable object with a known classification other than
\* safe and a confidence that is missing or not a number.
MalformedConfidenceOnly(text) ==
  /\ json_match(text) # <<>>
  /\ JsonDecodable(json_match(text))
  /\ LET parsed == json_loads(json_match(text))
     IN  /\ parsed.classification.t = "str"
         /\ classification_map_get(StrLower(parsed.classification.s)) # "safe"
         /\ parsed.confidence.t \in {"missing", "str", "null"}
         /\ parsed.confidence.t = "str" => ~IsNumericStr(parsed.confidence.s)

\* C10: on such an input the verdict keeps the extracted classification and
\* reasoning and has confidence 0.5.
C10_MalformedConfidenceKeepsVerdict ==
  (llm_result.called /\ MalformedConfidenceOnly(response_text)) =>
    LET parsed == json_loads(json_match(response_text))
    IN  /\ llm_result.value.classification =
             classification_map_get(StrLower(parsed.classification.s))
        /\ llm_result.value.reasoning =
             DictGet(parsed.reasoning, JStr(<<"No reasoning provided">>))
        /\ llm_result.value.confidence = 50

\* The text holds no structured fragment, or one that json.loads rejects.
NoDecodableFragment(text) ==
  json_match(text) = <<>> \/ ~JsonDecodable(json_match(text))

\* The result rows whose raw upstream text had no decodable fragment.
FallbackResults ==
  {r \in DOMAIN results : NoDecodableFragment(results[r].llm_response)}

\* C11: when the upstream text holds no decodable fragment, the stored verdict
\* is safe with confidence 0.5 and keeps the raw text of its classification
\* call, the request is completed, the submission is answered 200 and never
\* with an error, and no dispatch is scheduled or recorded for it.
C11_FallbackVerdictCompletes ==
  /\ \A r \in FallbackResults :
       /\ results[r].classification = "safe"
       /\ results[r].confidence = 50
       /\ results[r].reasoning.t = "str"
       /\ requests[results[r].request_id].status = "completed"
       /\ \A k \in DOMAIN notification_logs :
            notification_logs[k].request_id # results[r].request_id
       /\ \A i \in DOMAIN log :
            (log[i].request_id = results[r].request_id /\ ~log[i].cached)
            => (log[i].http = 200 /\ ~log[i].scheduled
                /\ log[i].classification = "safe" /\ log[i].confidence = 50)
  /\ \A h \in Handlers :
       ( /\ hs[h].pc \in {"committed", "background", "bg_record"}
         /\ \E r \in FallbackResults : results[r].request_id = hs[h].request_id )
       => hs[h].pc = "committed" /\ ~hs[h].flagged

\* Both fallbacks happened: a submission whose upstream text had no fragment
\* and one whose fragment did not decode were answered.
C11_Witness ==
  /\ \E r \in DOMAIN results, i \in DOMAIN log :
       /\ results[r].llm_response = PlainProse
       /\ log[i].request_id = results[r].request_id /\ log[i].llm
  /\ \E r \in DOMAIN results, i \in DOMAIN log :
       /\ results[r].llm_response = BrokenObject
       /\ log[i].request_id = results[r].request_id /\ log[i].llm

\* This step is the fan-out of handler h's background task.
SendStep(h) == hs[h].pc = "background" /\ hs'[h].pc = "bg_record"

\* This step is handler h's background task writing its rows.
RecordStep(h) ==
  /\ hs[h].pc = "bg_record"
  /\ \E d \in dispatched' : d.request_id = hs[h].request_id /\ d.recorded

\* The notification rows of a request on a channel.
RowsOf(logs, request_id, channel) ==
  {k \in DOMAIN logs :
     logs[k].request_id = request_id /\ logs[k].channel = channel}

\* C12: per-channel isolation.  In a dispatch for a non-safe verdict with both
\* channels configured, both channels are attempted whatever the outcome of
\* the other, and the recording step adds exactly one row per channel, failed
\* for a send that raised and sent for a send that returned.
C12_ChannelsAreIsolated ==
  [][\A h \in Handlers :
       /\ ( /\ SendStep(h)
            /\ hs[h].classification # "safe"
            /\ settings.slack_webhook_url /\ settings.brevo )
          => /\ hs'[h].slack \in {"sent", "failed"}
             /\ hs'[h].mail \in {"sent", "failed"}
       /\ (RecordStep(h) /\ hs[h].slack # "" /\ hs[h].mail # "")
          => /\ Len(notification_logs') = Len(notification_logs) + 2
             /\ SubSeq(notification_logs', 1, Len(notification_logs))
                  = notification_logs
             /\ \E k \in RowsOf(notification_logs', hs[h].request_id, "slack") :
                  /\ k > Len(notification_logs)
                  /\ notification_logs'[k].status = hs[h].slack
             /\ \E k \in RowsOf(notification_logs', hs[h].request_id, "email") :
                  /\ k > Len(notification_logs)
                  /\ notification_logs'[k].status = hs[h].mail]_vars

\* One dispatch recorded a failed chat send and a successful email send.
C12_Witness ==
  \E k1, k2 \in DOMAIN notification_logs :
    /\ notification_logs[k1].request_id = notification_logs[k2].request_id
    /\ notification_logs[k1].channel = "slack"
    /\ notification_logs[k1].status = "failed"
    /\ notification_logs[k2].channel = "email"
    /\ notification_logs[k2].status = "sent"

\* This step belongs to the background task of handler h.
DispatchStep(h) == hs[h].pc \in {"background", "bg_record"} /\ hs'[h] # hs[h]

\* C13: no step of a dispatch (fan-out, recording, or recording that fails)
\* changes a request row, a stored verdict, or a response already returned.
C13_DispatchLeavesSubmissionAlone ==
  [][(\E h \in Handlers : DispatchStep(h)) =>
       /\ requests' = requests
       /\ results' = results
       /\ log' = log]_vars

\* Dispatches ended with every send failed and with the recording failing, and
\* their requests are completed and were answered 200.
C13_Witness ==
  /\ \E d \in dispatched :
       /\ ~d.recorded
       /\ requests[d.request_id].status = "completed"
       /\ \E i \in DOMAIN log : log[i].request_id = d.request_id /\ log[i].http = 200
  /\ \E d \in dispatched :
       /\ d.recorded
       /\ requests[d.request_id].status = "completed"
       /\ RowsOf(notification_logs, d.request_id, "email") # {}
       /\ \A k \in DOMAIN notification_logs :
            notification_logs[k].request_id = d.request_id
            => notification_logs[k].status = "failed"

\* C14: every notification row belongs to a request that has a stored verdict,
\* all of whose verdicts have a classification other than safe, and that was
\* created by a cache miss answered 200 with a dispatch scheduled; no row
\* belongs to a request answered from the cache only.
C14_AttemptsOnlyForNonSafe ==
  \A k \in DOMAIN notification_logs :
    LET id == notification_logs[k].request_id
    IN  /\ id \in DOMAIN requests
        /\ ResultsOf(results, id) # {}
        /\ \A r \in ResultsOf(results, id) : results[r].classification # "safe"
        /\ \E i \in DOMAIN log :
             /\ log[i].request_id = id /\ ~log[i].cached
             /\ log[i].http = 200 /\ log[i].scheduled

\* A dispatch for a safe verdict ran to its end next to one that wrote rows.
C14_Witness ==
  /\ notification_logs # <<>>
  /\ \E d \in dispatched :
       /\ d.recorded
       /\ \E r \in ResultsOf(results, d.request_id) :
            results[r].classification = "safe"

\* The number of rows a finished dispatch leaves on a channel.
ExpectedRows(configured) == IF configured THEN 1 ELSE 0

\* The dispatches that ran to their end, rows committed, for a request whose
\* verdict is not safe.
FinishedNonSafeDispatches ==
  {d \in dispatched :
     /\ d.recorded
     /\ \E r \in ResultsOf(results, d.request_id) :
          results[r].classification # "safe"}

\* C15: once the dispatch of a successful cache miss with a non-safe verdict
\* has run, the store holds exactly one notification row per configured
\* channel for the request, and none for a channel that is not configured,
\* whatever the outcome of each send.
C15_OneAttemptPerConfiguredChannel ==
  \A d \in FinishedNonSafeDispatches :
    /\ Cardinality(RowsOf(notification_logs, d.request_id, "slack"))
         = ExpectedRows(settings.slack_webhook_url)
    /\ Cardinality(RowsOf(notification_logs, d.request_id, "email"))
         = ExpectedRows(settings.brevo)
    /\ \E i \in DOMAIN log :
         /\ log[i].request_id = d.request_id /\ ~log[i].cached
         /\ log[i].http = 200 /\ log[i].classification # "safe"

\* A dispatch ended whose email send failed while the chat channel is not
\* configured.
C15_Witness ==
  \E d \in FinishedNonSafeDispatches :
    /\ ~settings.slack_webhook_url
    /\ \E k \in RowsOf(notification_logs, d.request_id, "email") :
         notification_logs[k].status = "failed"

\* The submissions whose text is empty or longer than 10,000 characters.
InvalidTextSubmissions ==
  {n \in DOMAIN submitted :
     /\ submitted[n].kind = "text"
     /\ submitted[n].size \notin MinTextLength..MaxTextLength}

\* This step receives a submission.
ArrivalStep == Len(submitted') = Len(submitted) + 1

\* C16: a text that is empty or longer than 10,000 characters is answered with
\* the input error 422 at once, no handler runs for it, no request belongs to
\* it, the classification client is not called for it, and the step that
\* receives it leaves every table and every handler as they were.
C16_InvalidTextIsRejectedFirst ==
  /\ [](\A n \in InvalidTextSubmissions :
          /\ \A h \in Handlers : hs[h].n # n
          /\ \E i \in DOMAIN log : log[i].n = n
          /\ \A i \in DOMAIN log :
               log[i].n = n =>
                 /\ log[i].http = 422
                 /\ log[i].request_id = None
                 /\ ~log[i].llm /\ ~log[i].cached /\ ~log[i].scheduled)
  /\ [][(ArrivalStep /\ Len(submitted') \in InvalidTextSubmissions')
          => /\ requests' = requests
             /\ results' = results
             /\ notification_logs' = notification_logs
             /\ hs' = hs
             /\ Last(log').http = 422]_vars

\* A text of 10,001 characters was rejected while another submission, whose
\* request is stored, was waiting for its classification.
C16_Witness ==
  /\ \E h \in Handlers : hs[h].pc = "awaiting_llm"
  /\ \E n \in InvalidTextSubmissions :
       /\ submitted[n].size = MaxTextLength + 1
       /\ n > 1
       /\ \E i \in DOMAIN log : log[i].n = n /\ log[i].http = 422

\* The image submissions that are invalid: neither field given, an inline
\* payload that does not decode, an unsupported format, an image over the
\* size limit.
InvalidImageSubmissions ==
  {n \in DOMAIN submitted :
     /\ submitted[n].kind = "image"
     /\ submitted[n].defect \in {"missing", "undecodable", "unsupported", "too_large"}}

\* C17: an invalid image submission is answered with a 4xx status, not a 5xx
\* status.
C17_InvalidImageIsClientError ==
  \A i \in DOMAIN log :
    log[i].n \in InvalidImageSubmissions => log[i].http \in 400..499

\* The image submissions whose acquisition or validation failed (the invalid
\* ones and those whose URL could not be downloaded).
FailedImageSubmissions ==
  {n \in DOMAIN submitted :
     submitted[n].kind = "image" /\ submitted[n].defect # "none"}

\* C18: an image submission whose acquisition or validation fails leaves the
\* store unchanged: the step that receives it changes no table and starts no
\* handler, no handler ever runs for it, and its response names no request
\* and no classification call.
C18_FailedImageLeavesStore ==
  /\ [](\A n \in FailedImageSubmissions :
          /\ \A h \in Handlers : hs[h].n # n
          /\ \E i \in DOMAIN log : log[i].n = n
          /\ \A i \in DOMAIN log :
               log[i].n = n =>
                 /\ log[i].http >= 400
                 /\ log[i].request_id = None
                 /\ ~log[i].llm /\ ~log[i].cached /\ ~log[i].scheduled)
  /\ [][(ArrivalStep /\ Len(submitted') \in FailedImageSubmissions')
          => /\ requests' = requests
             /\ results' = results
             /\ notification_logs' = notification_logs
             /\ hs' = hs]_vars

\* An image that is no supported format arrived while another submission,
\* whose request is stored, was waiting for its classification.
C18_Witness ==
  /\ \E h \in Handlers : hs[h].pc = "awaiting_llm"
  /\ \E n \in FailedImageSubmissions :
       /\ submitted[n].defect = "unsupported"
       /\ n > 1
       /\ \E i \in DOMAIN log : log[i].n = n

\* The submissions that failed at the classification call.
FailedAtClassification ==
  {i \in FailedWithoutVerdict : log[i].llm}

\* What the caller sees of a response.
CallerVisible(response) == <<response.http, response.detail>>

\* C19: the error a caller gets for a failed classification call does not
\* depend on the upstream's error text: two such failures of the same
\* submitter with the same content get the same status and detail, and no
\* detail holds the text of an upstream error.
C19_ErrorHidesUpstreamText ==
  /\ \A i, j \in FailedAtClassification :
       ( /\ log[i].kind = log[j].kind
         /\ log[i].email = log[j].email
         /\ log[i].content_hash = log[j].content_hash )
       => CallerVisible(log[i]) = CallerVisible(log[j])
  /\ \A i \in FailedAtClassification :
       \A raw \in UpstreamFailures :
         \A k \in DOMAIN log[i].detail : log[i].detail[k] # ErrorText(raw)

\* C20: texts that differ only in leading and trailing whitespace, in letter
\* case or in the length of whitespace runs have the same fingerprint, and
\* the fingerprint of a normalized text is the fingerprint of the text.
C20_FingerprintIsStable ==
  digests.called => (digests.u = digests.t /\ digests.n = digests.t)

\* The second half of C20 alone: normalization is idempotent under hash_text.
NormalizationIsIdempotent == digests.called => digests.n = digests.t

\* The first half of C20 on texts without a sigma.
HasSigma(s) == \E i \in 1..Len(s) : s[i] \in {CapitalSigma, SmallSigma, FinalSigma}

StableWithoutSigma ==
  (digests.called /\ ~HasSigma(text_t)) => digests.u = digests.t

\* A final sigma and its capital were fingerprinted.
C20_Witness ==
  /\ digests.called
  /\ text_t = <<FinalSigma>>
  /\ text_u = <<CapitalSigma>>
  /\ digests.u # digests.t
\* C21: an image submitted by a URL whose normal form is the key of a stored
\* verdict is answered from the cache without a download of the image.
C21_UrlHitDoesNotFetch ==
  \A i \in DOMAIN log :
    (log[i].kind = "image" /\ log[i].cached) => log[i].fetch = ""

\* An image URL was answered from the cache.
C21_Witness ==
  \E i \in DOMAIN log :
    log[i].kind = "image" /\ log[i].cached /\ log[i].fetch = "ok"
\* The submissions answered after a classification call of their own.
Classified == {i \in DOMAIN log : log[i].http = 200 /\ ~log[i].cached}

\* The verdict row of the request of answered submission i.
VerdictOf(i) == CHOOSE r \in ResultsOf(results, log[i].request_id) : TRUE

\* Submissions i and j had the same content and overlapped: the request of
\* each was created before the verdict of the other was stored.
Raced(i, j) ==
  /\ i # j
  /\ log[i].kind = log[j].kind
  /\ log[i].content_hash = log[j].content_hash
  /\ ResultsOf(results, log[i].request_id) # {}
  /\ ResultsOf(results, log[j].request_id) # {}
  /\ requests[log[i].request_id].created_at < results[VerdictOf(j)].created_at
  /\ requests[log[j].request_id].created_at < results[VerdictOf(i)].created_at

\* C22: two overlapping submissions of the same content both miss the dedup
\* lookup: each has created a request of its own, each has called the
\* classification client and has a verdict of its own, and each has scheduled
\* a dispatch when the flag of its verdict was set.
C22_RaceIsAccepted ==
  \A i, j \in Classified :
    Raced(i, j) =>
      /\ log[i].request_id # log[j].request_id
      /\ \A k \in {i, j} :
           /\ requests[log[k].request_id].content_hash = log[k].content_hash
           /\ requests[log[k].request_id].content_type = log[k].kind
           /\ log[k].llm
           /\ Cardinality(ResultsOf(results, log[k].request_id)) = 1
           /\ Truthy(parse_llm_response(results[VerdictOf(k)].llm_response).value.flagged)
                => log[k].scheduled

\* The race happened on an empty store with a verdict that is not safe: two
\* requests, two classification calls, two dispatches.
C22_Witness ==
  \E i, j \in Classified :
    /\ Raced(i, j)
    /\ Len(requests) = 2
    /\ Len(results) = 2
    /\ \A k \in {i, j} :
         log[k].llm /\ log[k].classification # "safe" /\ log[k].scheduled
\* The response the handler has returned for its current submission.
ResponsesOf(h) == {i \in DOMAIN log : log[i].n = hs[h].n /\ log[i].handler = h}

\* C23: the dispatch of a submission starts only after its verdict is
\* stored, its request is completed and its response is built: whenever the
\* background task of a handler is due or has made its sends, the request has
\* a verdict and status completed (never processing) and the response of the
\* submission is a success response that was already returned.
C23_DispatchFollowsResponse ==
  \A h \in Handlers :
    hs[h].pc \in {"background", "bg_record"} =>
      /\ ResultsOf(results, hs[h].request_id) # {}
      /\ requests[hs[h].request_id].status = "completed"
      /\ requests[hs[h].request_id].status # "processing"
      /\ ResponsesOf(h) # {}
      /\ \A i \in ResponsesOf(h) :
           log[i].http = 200 /\ log[i].request_id = hs[h].request_id

\* The channel sends of a dispatch were made.
C23_Witness ==
  \E h \in Handlers :
    /\ hs[h].pc = "bg_record"
    /\ "sent" \in {hs[h].slack, hs[h].mail}
    /\ ResponsesOf(h) # {}
\* The submissions whose verdict commit raised.
VerdictCommitFailed == {i \in DOMAIN log : "verdict" \in log[i].faults}

\* C24: a submission whose verdict commit failed is answered with a 5xx
\* status, and its request is failed and has no verdict.
C24_VerdictCommitFailure ==
  \A i \in VerdictCommitFailed :
    /\ log[i].http \in 500..599
    /\ requests[log[i].request_id].status = "failed"
    /\ ResultsOf(results, log[i].request_id) = {}

\* C24 when the commit of the failed status returns.
VerdictCommitFailureMarked ==
  \A i \in VerdictCommitFailed :
    log[i].faults = {"verdict"} =>
      /\ log[i].http \in 500..599
      /\ requests[log[i].request_id].status = "failed"
      /\ ResultsOf(results, log[i].request_id) = {}

\* C24 without the status: the answer is 5xx and no verdict is stored.
VerdictCommitFailureAnswer ==
  \A i \in VerdictCommitFailed :
    log[i].http \in 500..599 /\ ResultsOf(results, log[i].request_id) = {}

\* The verdict commit and the commit of the failed status both raised.
C24_Witness ==
  \E i \in VerdictCommitFailed :
    /\ log[i].faults = {"verdict", "mark"}
    /\ requests[log[i].request_id].status = "processing"
\* The submissions whose classification call failed and whose commit of the
\* failed status raised as well.
MarkCommitFailed == {i \in DOMAIN log : log[i].faults = {"mark"}}

\* C25: a submission whose classification call failed and whose commit of
\* the failed status failed too is still answered with a failure: a 5xx
\* status and no verdict in the response, and no verdict is stored for it.
C25_ErrorSurvivesMarkFailure ==
  \A i \in MarkCommitFailed :
    /\ log[i].llm
    /\ log[i].http \in 500..599
    /\ log[i].classification = ""
    /\ ~log[i].cached
    /\ ResultsOf(results, log[i].request_id) = {}

\* Such a submission was answered; its request is still processing.
C25_Witness ==
  \E i \in MarkCommitFailed :
    /\ log[i].http = 500
    /\ requests[log[i].request_id].status = "processing"
\* C27: a request is completed exactly when one verdict is stored for it; a
\* request that is processing or failed has none, and no request has more
\* than one.
C27_CompletedIffOneVerdict ==
  \A id \in DOMAIN requests :
    /\ requests[id].status = "completed"
         <=> Cardinality(ResultsOf(results, id)) = 1
    /\ requests[id].status \in {"processing", "failed"}
         => ResultsOf(results, id) = {}
    /\ Cardinality(ResultsOf(results, id)) <= 1

\* C27 without the failed requests: completed requests have one verdict,
\* processing requests none, and no request has more than one.
CompletedHasOneVerdict ==
  \A id \in DOMAIN requests :
    /\ requests[id].status = "completed"
         => Cardinality(ResultsOf(results, id)) = 1
    /\ requests[id].status = "processing" => ResultsOf(results, id) = {}
    /\ Cardinality(ResultsOf(results, id)) <= 1

\* A failed request has a verdict.
C27_Witness ==
  \E id \in DOMAIN requests :
    requests[id].status = "failed" /\ ResultsOf(results, id) # {}
\* C28: a request is first stored with status processing, before its
\* classification call: every step that adds a request row adds one row,
\* with status processing; while a handler waits for the classification
\* client its request is stored and processing; no stored request is ever
\* pending.
C28_CreatedAsProcessing ==
  /\ [](/\ \A id \in DOMAIN requests :
             requests[id].status \in {"processing", "completed", "failed"}
        /\ \A h \in Handlers :
             hs[h].pc = "awaiting_llm" =>
               /\ hs[h].request_id \in DOMAIN requests
               /\ requests[hs[h].request_id].status = "processing")
  /\ [][Len(requests') # Len(requests) =>
          /\ Len(requests') = Len(requests) + 1
          /\ SubSeq(requests', 1, Len(requests)) = requests
          /\ Last(requests').status = "processing"
          /\ ResultsOf(results', Len(requests')) = {}]_vars

\* A handler waits for the classification client with its request stored.
C28_Witness ==
  \E h \in Handlers :
    /\ hs[h].pc = "awaiting_llm"
    /\ requests[hs[h].request_id].status = "processing"
\* C29: a lookup that finds a request of the same kind and fingerprint
\* without a verdict is a cache miss.  Every cache hit names a request that
\* has a verdict; every miss whose lookup found a request found one without
\* a verdict and with the key of the submission, leaves every stored request
\* as it was, adds a request of its own and waits for the classification
\* client.
C29_VerdictlessMatchIsMiss ==
  [][/\ CacheHitStep => ResultsOf(results, Last(log').request_id) # {}
     /\ \A h \in Handlers :
          (CacheMissStep(h) /\ hs'[h].existing_request # None) =>
            /\ ResultsOf(results, hs'[h].existing_request) = {}
            /\ requests[hs'[h].existing_request].content_hash = hs'[h].content_hash
            /\ requests[hs'[h].existing_request].content_type = hs'[h].kind
            /\ Len(requests') = Len(requests) + 1
            /\ SubSeq(requests', 1, Len(requests)) = requests
            /\ hs'[h].request_id = Len(requests')
            /\ hs'[h].request_id # hs'[h].existing_request
            /\ Last(requests').content_hash = hs'[h].content_hash
            /\ hs'[h].pc = "awaiting_llm"]_vars

\* A submission missed although its lookup found a request: one that is
\* still processing, and one that has failed.
C29_Witness ==
  \E h, g \in Handlers :
    /\ hs[h].pc = "awaiting_llm"
    /\ hs[h].existing_request # None
    /\ requests[hs[h].existing_request].status = "processing"
    /\ hs[h].request_id # hs[h].existing_request
    /\ hs[g].pc = "awaiting_llm"
    /\ hs[g].request_id = hs[h].existing_request

C29_FoundFailed ==
  \E h \in Handlers :
    /\ hs[h].pc = "awaiting_llm"
    /\ hs[h].existing_request # None
    /\ requests[hs[h].existing_request].status = "failed"
    /\ ResultsOf(results, hs[h].existing_request) = {}
\* C30: dedup is keyed by kind and fingerprint together.  The request a
\* cache hit answers from has the kind of the submission (and its
\* fingerprint), also when a request of the other kind with the same
\* fingerprint is stored.
C30_DedupIsKeyedByKind ==
  \A i \in DOMAIN log :
    log[i].cached =>
      /\ requests[log[i].request_id].content_type = log[i].kind
      /\ requests[log[i].request_id].content_hash = log[i].content_hash

\* A text and an image with equal fingerprints were both submitted, the
\* verdict of the first was stored before the second arrived, and the second
\* was a miss.
C30_Witness ==
  \E a, b \in DOMAIN requests :
    /\ a < b
    /\ requests[a].content_hash = requests[b].content_hash
    /\ requests[a].content_type # requests[b].content_type
    /\ \E r \in ResultsOf(results, a) :
         results[r].created_at < requests[b].created_at
\* Handler h takes this step, and no other handler does.
StepOf(h) == hs'[h] # hs[h] /\ \A g \in Handlers \ {h} : hs'[g] = hs[g]

\* C31: the status of a request is written only by the submission that
\* created it, and a verdict is attached to the request of the submission
\* that obtained it.  A step that changes the status of a stored request, or
\* adds a verdict, is a step of one handler whose own request (the one it
\* created, with its submitter and fingerprint) is the request written, and
\* changes no other request.
C31_SingleWriterPerRequest ==
  [][/\ \A id \in DOMAIN requests :
          requests'[id] # requests[id] =>
            \E h \in Handlers :
              /\ StepOf(h)
              /\ hs[h].request_id = id
              /\ requests[id].email = hs[h].email
              /\ requests[id].content_hash = hs[h].content_hash
              /\ \A other \in DOMAIN requests \ {id} :
                   requests'[other] = requests[other]
     /\ Len(results') # Len(results) =>
          /\ Len(results') = Len(results) + 1
          /\ SubSeq(results', 1, Len(results)) = results
          /\ \E h \in Handlers :
               /\ StepOf(h)
               /\ hs[h].pc = "awaiting_llm"
               /\ Last(results').request_id = hs[h].request_id
               /\ requests[hs[h].request_id].email = hs[h].email
               /\ requests[hs[h].request_id].content_hash = hs[h].content_hash]_vars

\* Two submissions of one content overlap, each with a request of its own,
\* and one of them already has its verdict.
C31_Witness ==
  \E h, g \in Handlers :
    /\ h # g
    /\ hs[h].pc = "committed"
    /\ hs[g].pc = "awaiting_llm"
    /\ hs[h].content_hash = hs[g].content_hash
    /\ hs[h].kind = hs[g].kind
    /\ requests[hs[h].request_id].status = "completed"
    /\ requests[hs[g].request_id].status = "processing"
\* C32: every created request reaches a terminal status in the end, also when
\* its handler is cancelled while it waits for the classification call.
C32_RequestsTerminate ==
  \A id \in 1..MaxSubmissions :
    (id \in DOMAIN requests)
      ~> (id \in DOMAIN requests /\ requests[id].status \in {"completed", "failed"})

\* The submission of request id was cancelled.
Cancelled(id) ==
  \E i \in DOMAIN log : log[i].request_id = id /\ "cancelled" \in log[i].faults

\* C32 for the requests whose handler is not cancelled.
UncancelledRequestsTerminate ==
  \A id \in 1..MaxSubmissions :
    (id \in DOMAIN requests)
      ~> (id \in DOMAIN requests
          /\ (requests[id].status \in {"completed", "failed"} \/ Cancelled(id)))

\* A cancelled submission left its request in status processing.
C32_Witness ==
  \E id \in DOMAIN requests :
    /\ Cancelled(id)
    /\ requests[id].status = "processing"
    /\ \A h \in Handlers : hs[h].pc = "idle"
\* C33: a notification row with status sent has the creation time of its
\* request as its sent time, and the rows of one dispatch share their sent
\* time.
C33_SentAtIsCreationTime ==
  /\ \A k \in DOMAIN notification_logs :
       notification_logs[k].status = "sent" =>
         notification_logs[k].sent_at
           = requests[notification_logs[k].request_id].created_at
  /\ \A k, l \in DOMAIN notification_logs :
       notification_logs[k].request_id = notification_logs[l].request_id =>
         notification_logs[k].sent_at = notification_logs[l].sent_at

\* A dispatch recorded two rows, one of them sent, after the clock of the
\* store had moved on from the creation of the request.
C33_Witness ==
  \E k, l \in DOMAIN notification_logs :
    /\ k # l
    /\ notification_logs[k].request_id = notification_logs[l].request_id
    /\ notification_logs[k].status = "sent"
    /\ now > requests[notification_logs[k].request_id].created_at + 1

\* C34: a notification row has an error detail exactly when its status is
\* failed.
C34_ErrorIffFailed ==
  \A k \in DOMAIN notification_logs :
    notification_logs[k].error_message # "" <=> notification_logs[k].status = "failed"

\* A sent row and a failed row are stored.
C34_Witness ==
  \E k, l \in DOMAIN notification_logs :
    /\ notification_logs[k].status = "sent"
    /\ notification_logs[l].status = "failed"
    /\ notification_logs[l].error_message # ""

\* C35: in the message of every channel the content preview is the first
\* 200 characters of the content, followed by the truncation marker exactly
\* when the content is longer than 200 characters.
MarkedPreview(chars) ==
  IF Len(chars) > PreviewLength THEN Truncate(chars, PreviewLength) \o Ellipsis
  ELSE chars

\* The content an alert is about: the text, or the description of the image.
Described(c) == IF c.kind = "text" THEN c.chars ELSE ImagePrefix \o c.chars

C35_PreviewIsMarked ==
  messages.called =>
    /\ messages.slack = MarkedPreview(Described(content))
    /\ messages.mail = MarkedPreview(Described(content))

\* What the code guarantees: a text of at most 200 characters is shown whole
\* in both channels, and a longer text is cut to 200 characters without a
\* marker.
TextPreviewIsCut ==
  messages.called /\ content.kind = "text" =>
    /\ messages.slack = Truncate(content.chars, PreviewLength)
    /\ messages.mail = Truncate(content.chars, PreviewLength)

C35_Witness ==
  /\ messages.called
  /\ content.kind = "text"
  /\ Len(content.chars) > PreviewLength
  /\ messages.slack = Truncate(content.chars, PreviewLength)

\* C37: in the analytics summary of every submitter flagged_content equals
\* toxic_content + spam_content + harassment_content + inappropriate_content,
\* and safe_content + flagged_content equals total_requests.
SubmitterEmails == {"u1@x.org", "u2@x.org"}

CategoriesOf(summary) ==
  summary.toxic_content + summary.spam_content
  + summary.harassment_content + summary.inappropriate_content

C37_SummaryCountsAgree ==
  \A user \in SubmitterEmails :
    LET summary == get_user_analytics_summary(requests, results, user)
    IN  /\ summary.flagged_content = CategoriesOf(summary)
        /\ summary.safe_content + summary.flagged_content
             = summary.total_requests

\* What the code guarantees: safe_content + flagged_content is
\* total_requests, and flagged_content exceeds the four categories by the
\* number of the submitter's requests that have no verdict.
Verdictless(user) ==
  {i \in DOMAIN requests :
     /\ requests[i].email = user
     /\ \A j \in DOMAIN results : results[j].request_id # i}

SummaryCountsRequests ==
  \A user \in SubmitterEmails :
    LET summary == get_user_analytics_summary(requests, results, user)
    IN  /\ summary.safe_content + summary.flagged_content
             = summary.total_requests
        /\ summary.flagged_content
             = CategoriesOf(summary) + Cardinality(Verdictless(user))

C37_Witness ==
  \E user \in SubmitterEmails :
    /\ \E i \in Verdictless(user) : requests[i].status = "failed"
    /\ \A h \in Handlers : hs[h].pc = "idle"
    /\ get_user_analytics_summary(requests, results, user).flagged_content = 1
    /\ CategoriesOf(get_user_analytics_summary(requests, results, user)) = 0

\* C38: the session opened by the background dispatcher is closed on every
\* path through it: every dispatch that has ended has closed its session.
C38_SessionIsClosed == \A d \in dispatched : d.closed

\* What the code guarantees: the session is closed exactly when the lookup of
\* the request and the commit of the rows did not raise; a channel send that
\* fails is caught in the notification service and leaves the session closed.
SessionClosedIffRecorded == \A d \in dispatched : d.closed <=> d.recorded

ClosedAfterFailedSend ==
  \A d \in dispatched :
    (\E i \in DOMAIN notification_logs :
       /\ notification_logs[i].request_id = d.request_id
       /\ notification_logs[i].status = "failed") => d.closed

C38_Witness ==
  /\ \E d \in dispatched : ~d.recorded /\ ~d.closed
  /\ \E d \in dispatched :
       /\ d.closed
       /\ \E i \in DOMAIN notification_logs :
            /\ notification_logs[i].request_id = d.request_id
            /\ notification_logs[i].status = "failed"

\* C36: a response answered from the cache carries the id of a stored request
\* with the key of the submission and the verdict stored for it, and two
\* such responses for one content carry the same id, classification,
\* confidence and reasoning, whoever submitted.
HitFields(response) ==
  <<response.request_id, response.classification, response.confidence,
    response.reasoning>>

C36_HitsAreIdentical ==
  \A i, j \in DOMAIN log :
    ( /\ log[i].cached /\ log[j].cached
      /\ log[i].kind = log[j].kind
      /\ log[i].content_hash = log[j].content_hash )
    => HitFields(log[i]) = HitFields(log[j])

\* What the code guarantees: the id of a cached response is that of a stored
\* request with the key of the submission, never a new one, and the verdict
\* is the one stored for that request.
HitCarriesStoredRequest ==
  \A i \in DOMAIN log :
    log[i].cached =>
      /\ log[i].request_id \in DOMAIN requests
      /\ requests[log[i].request_id].content_hash = log[i].content_hash
      /\ requests[log[i].request_id].content_type = log[i].kind
      /\ \E r \in DOMAIN results :
           /\ results[r].request_id = log[i].request_id
           /\ results[r].classification = log[i].classification
           /\ results[r].confidence = log[i].confidence
           /\ results[r].reasoning = log[i].reasoning
      /\ \A k \in DOMAIN log :
           k # i /\ ~log[k].cached => log[k].n # log[i].n

HitStep == Len(log') = Len(log) + 1 /\ Last(log').cached

HitAddsNoRequest == [][HitStep => requests' = requests]_vars

\* Two cached responses for one content, to different submitters.
C36_Witness ==
  \E i, j \in DOMAIN log :
    /\ log[i].cached /\ log[j].cached
    /\ log[i].content_hash = log[j].content_hash
    /\ log[i].email # log[j].email
    /\ HitFields(log[i]) # HitFields(log[j])

====
